---- MODULE Spec2Model ----
(***************************************************************************)
(* R55: the RISC-V interpreter bridge of r55/src/exec.rs attached to the   *)
(* host EVM engine through handle_register.  The model follows one         *)
(* transaction: the host's frame loop, the bridge's call stack of optional *)
(* emulator contexts, and execute_riscv's trap/dispatch loop, one          *)
(* emu.start() + match arm per step.                                       *)
(*                                                                         *)
(* Machine words.  TLC's integers are 32 bits wide, so a u64 is modelled   *)
(* as a word of U64Mod = 2^30 values; every wrap, truncation and range     *)
(* test is computed modulo that width.  Gas constants keep their real      *)
(* values.  DRAM_BASE (2^31 in rvemu) is placed at 2^29 for the same       *)
(* reason; DRAM_SIZE keeps its value 2^27.                                 *)
(***************************************************************************)
EXTENDS Integers, Sequences, FiniteSets, TLC

\* ------------------------------------------------------------------ bounds
\* Host call depth at which the call/create hook answers with a result
\* instead of a frame (revm's CALL_STACK_LIMIT, scaled).
CallStackLimit == 3
\* Execute-frame steps (native steps and emulator loop iterations) explored
\* per transaction.
MaxSteps == 3

\* ------------------------------------------------------------ machine words
U64Mod == 2^30
DRAM_BASE == 2^29
DRAM_SIZE == 2^27
DRAM_END == DRAM_BASE + DRAM_SIZE

\* `x as u8`
AsU8(x) == x % 256

\* u64 addition and multiplication as the build computes them: with overflow
\* checks (debug profile) an overflow panics, without (release) it wraps.
CheckedAdd(checks, a, b) ==
    IF a + b >= U64Mod
    THEN [panic |-> checks, val |-> (a + b) % U64Mod]
    ELSE [panic |-> FALSE, val |-> a + b]

\* a - b on u64.
CheckedSub(checks, a, b) ==
    IF a < b
    THEN [panic |-> checks, val |-> (a - b + U64Mod) % U64Mod]
    ELSE [panic |-> FALSE, val |-> a - b]

\* ------------------------------------------------------------------- bytes
Zeros(n) == [i \in 1..n |-> 0]

\* The 256-bit zero, as four 64-bit limbs, least significant first.
U256Zero == <<0, 0, 0, 0>>

\* --------------------------------------------------------- syscall catalog
\* syscalls!(...): (num, identifier, name)
Catalog ==
    { <<32,  "Keccak256",  "keccak256">>,
      <<50,  "Origin",     "origin">>,
      <<51,  "Caller",     "caller">>,
      <<52,  "CallValue",  "callvalue">>,
      <<58,  "GasPrice",   "gasprice">>,
      <<61,  "ReturnDataSize", "returndatasize">>,
      <<62,  "ReturnDataCopy", "returndatacopy">>,
      <<66,  "Timestamp",  "timestamp">>,
      <<67,  "Number",     "number">>,
      <<69,  "GasLimit",   "gaslimit">>,
      <<70,  "ChainId",    "chainid">>,
      <<72,  "BaseFee",    "basefee">>,
      <<84,  "SLoad",      "sload">>,
      <<85,  "SStore",     "sstore">>,
      <<240, "Create",     "create">>,
      <<241, "Call",       "call">>,
      <<250, "StaticCall", "staticcall">>,
      <<243, "Return",     "return">>,
      <<253, "Revert",     "revert">>,
      <<160, "Log",        "log">>,
      <<1,   "ReturnCreateAddress", "returncreateaddress">> }

SyscallCodes == { s[1] : s \in Catalog }

\* A conversion that takes an unlisted code for Revert.
TryFromU8Lenient(value) ==
    IF \E s \in Catalog : s[1] = value
    THEN (CHOOSE s \in Catalog : s[1] = value)[2]
    ELSE "Revert"

\* impl TryFrom<u8> for Syscall: the identifier, or "UnknownOpcode".
TryFromU8(value) ==
    IF \E s \in Catalog : s[1] = value
    THEN (CHOOSE s \in Catalog : s[1] = value)[2]
    ELSE "UnknownOpcode"

\* impl From<Syscall> for u8
ToU8(syscall) == (CHOOSE s \in Catalog : s[2] = syscall)[1]

\* impl Display for Syscall
Display(syscall) == (CHOOSE s \in Catalog : s[2] = syscall)[3]

\* impl FromStr for Syscall: the identifier, or "ParseError".
FromStr(input) ==
    IF \E s \in Catalog : s[3] = input
    THEN (CHOOSE s \in Catalog : s[3] = input)[2]
    ELSE "ParseError"

\* ---------------------------------------------------------------- gas.rs
SLOAD_COLD == 2100
SLOAD_WARM == 100
SSTORE_COLD == 2200
SSTORE_WARM == 100
CALL_EMPTY_ACCOUNT == 25000
CALL_NEW_ACCOUNT == 2600
CALL_VALUE == 9000
CALL_BASE == 100

\* revm Gas::record_cost as syscall_gas! and return_revert use it: the cost
\* is deducted when it fits in the remaining gas, and nothing changes
\* otherwise.  gas = [limit, remaining].
RecordCostOk(gas, cost) == cost <= gas.remaining

\* A record_cost that checks the budget and spends nothing.
RecordNoCost(gas, cost) == gas

RecordCost(gas, cost) ==
    IF RecordCostOk(gas, cost)
    THEN [gas EXCEPT !.remaining = gas.remaining - cost]
    ELSE gas

GasSpent(gas) == gas.limit - gas.remaining

\* ---------------------------------------------------------------- addresses
\* A 20-byte address as five 4-byte big-endian chunks.  A register holds two
\* chunks: HalfMod is the modelled 2^32.
HalfMod == 2^15

ALICE == <<0, 0, 0, 0, 10>>
R55A  == <<0, 0, 0, 0, 85>>
R55B  == <<0, 0, 0, 1, 85>>
EVMA  == <<0, 0, 0, 0, 14>>
BADA  == <<0, 0, 0, 0, 11>>
EOAA  == <<0, 0, 0, 0, 12>>

\* Bytecode of the accounts of the database: RISC-V contracts carry the
\* marker 0xFF in front of an ELF image (magic byte 0x7F first), BADA carries
\* the marker in front of bytes that are no ELF image, EVMA is native
\* bytecode, the others hold no code.
Code(addr) ==
    CASE addr = R55A -> <<255, 127, 69>>
      [] addr = R55B -> <<255, 127, 70>>
      [] addr = BADA -> <<255, 0, 1>>
      [] addr = EVMA -> <<96, 0, 243>>
      [] OTHER       -> << >>

\* revm pads analysed legacy bytecode with 33 zero bytes.
BytecodePadding == 33
Padded(bytes) == bytes \o Zeros(BytecodePadding)

\* Address::from_word(U256::from_limbs([a0, a1, a2, 0])): the low 20 bytes
\* of the 32-byte big-endian word.
AddressFromLimbs(a0, a1, a2) ==
    << a2 % HalfMod, a1 \div HalfMod, a1 % HalfMod, a0 \div HalfMod, a0 % HalfMod >>

\* ----------------------------------------------------------------- emulator
\* Registers the bridge reads and writes: t0 = x5, a0..a7 = x10..x17.
Regs == {5} \cup (10..17)
ZeroRegs == [r \in Regs |-> 0]

\* A loader that would take any image for an ELF file.
AnyImageParses(elf_data) == TRUE

\* goblin::elf::Elf::parse, reduced to the test of the first magic byte.
ElfParses(elf_data) == Len(elf_data) >= 1 /\ elf_data[1] = 127

\* The length most significant byte first.
ToBeBytes8(n) == [i \in 1..8 |-> IF i = 8 THEN n % 256
                                  ELSE IF i = 7 THEN (n \div 256) % 256 ELSE 0]

\* `(call_data.len() as u64).to_le_bytes()`: 8 bytes, least significant first.
ToLeBytes8(n) == [i \in 1..8 |-> IF i = 1 THEN n % 256
                                  ELSE IF i = 2 THEN (n \div 256) % 256 ELSE 0]

\* The memory image setup_from_elf builds: the calldata length, then the
\* calldata, at the start of RAM.  dram maps an address to its byte; an
\* address outside its domain holds zero.
CalldataImage(call_data) ==
    LET bytes == ToLeBytes8(Len(call_data)) \o call_data
    IN  [a \in DRAM_BASE..(DRAM_BASE + Len(bytes) - 1) |-> bytes[a - DRAM_BASE + 1]]

\* setup_from_elf(elf_data, call_data) -> Result<Emulator>
setup_from_elf(elf_data, call_data) ==
    IF ElfParses(elf_data)
    THEN [ok |-> TRUE,
          emu |-> [elf |-> elf_data,
                   xregs |-> ZeroRegs,
                   dram |-> CalldataImage(call_data),
                   inst_counter |-> [m \in {} |-> 0]]]
    ELSE [ok |-> FALSE]

\* U32::from_be_slice of four bytes.
U32FromBe(b) == ((b[1] * 256 + b[2]) * 256 + b[3]) * 256 + b[4]

NoneSlot == [some |-> FALSE]
SomeSlot(emu, id) ==
    [some |-> TRUE, emu |-> emu, id |-> id, created_address |-> <<0, 0, 0, 0, 0>>]

\* riscv_context for a create frame, after the first marker byte was split
\* off: `bytecode` is the rest.  Out-of-range split_at and slices panic, as
\* do the usize subtractions (with overflow checks at the subtraction,
\* without them at the slice that follows).
CreateContext(bytecode) ==
    IF Len(bytecode) < 4 THEN [kind |-> "Panic"]
    ELSE
    LET code_size_bytes == SubSeq(bytecode, 1, 4)
        init_code == SubSeq(bytecode, 5, Len(bytecode))
    IN  IF Len(init_code) = 0 \/ init_code[1] # 255 THEN [kind |-> "None"]
        ELSE
        LET rest == Tail(init_code)
            code_size == U32FromBe(code_size_bytes) - 1
            end_of_args == Len(init_code) - 34
        IN  IF code_size < 0 \/ end_of_args < 0 THEN [kind |-> "Panic"]
            ELSE IF code_size > Len(rest) THEN [kind |-> "Panic"]
            ELSE IF code_size > end_of_args \/ end_of_args > Len(rest)
                 THEN [kind |-> "Panic"]
            ELSE [kind |-> "Parsed",
                  code |-> SubSeq(rest, 1, code_size),
                  calldata |-> SubSeq(rest, code_size + 1, end_of_args)]

\* The (code, calldata) pair riscv_context hands to setup_from_elf, or None,
\* or a panic.
ContextInput(frame) ==
    IF Len(frame.bytecode) = 0 \/ frame.bytecode[1] # 255 THEN [kind |-> "None"]
    ELSE IF frame.is_create THEN CreateContext(Tail(frame.bytecode))
    ELSE [kind |-> "Parsed", code |-> Tail(frame.bytecode), calldata |-> frame.input]

\* riscv_context(frame) -> Option<RVEmu>; `id` names the new emulator instance.
riscv_context(frame, id) ==
    LET inp == ContextInput(frame)
    IN  IF inp.kind # "Parsed" THEN [kind |-> inp.kind, slot |-> NoneSlot]
        ELSE LET r == setup_from_elf(inp.code, inp.calldata)
             IN  IF r.ok THEN [kind |-> "Some", slot |-> SomeSlot(r.emu, id)]
                 ELSE [kind |-> "None", slot |-> NoneSlot]

\* ------------------------------------------------------------ emulator RAM
Byte(dram, a) == IF a \in DOMAIN dram THEN dram[a] ELSE 0

ReadMem(dram, start, n) == [i \in 1..n |-> Byte(dram, start + i - 1)]

\* A copy that leaves the destination as it was.
WriteNothing(dram, start, bytes) == dram

\* copy_from_slice into the slice that starts at `start`.
WriteMem(dram, start, bytes) ==
    [a \in (DOMAIN dram) \cup (start..(start + Len(bytes) - 1)) |->
        IF a >= start /\ a < start + Len(bytes) THEN bytes[a - start + 1]
        ELSE dram[a]]

\* rvemu's bus.get_dram_slice(start..end): Ok for a range inside RAM, an
\* exception otherwise.
GetDramSliceOk(start, end) == DRAM_BASE <= start /\ start <= end /\ end <= DRAM_END

\* dram_slice(emu, ret_offset, ret_size) -> Result<&mut [u8]>
\* kind: "Ok" with the bytes, "Err" (the exception, propagated by `?`), or
\* "Panic" (overflow of ret_offset + ret_size under overflow checks).
dram_slice(checks, dram, ret_offset, ret_size) ==
    IF ret_size # 0
    THEN LET end == CheckedAdd(checks, ret_offset, ret_size)
         IN  IF end.panic THEN [kind |-> "Panic", bytes |-> << >>]
             ELSE IF GetDramSliceOk(ret_offset, end.val)
                  THEN [kind |-> "Ok", bytes |-> ReadMem(dram, ret_offset, ret_size)]
                  ELSE [kind |-> "Err", bytes |-> << >>]
    ELSE [kind |-> "Ok", bytes |-> << >>]

\* get_dram_slice(start..(start + size)).unwrap_or(&mut [])
SliceOrEmpty(checks, dram, start, size) ==
    LET end == CheckedAdd(checks, start, size)
    IN  IF end.panic THEN [kind |-> "Panic", bytes |-> << >>]
        ELSE IF GetDramSliceOk(start, end.val)
             THEN [kind |-> "Ok", bytes |-> ReadMem(dram, start, size)]
             ELSE [kind |-> "Ok", bytes |-> << >>]

\* ---------------------------------------------------------- instruction gas
DivRem == {"div", "divu", "divw", "divuw", "rem", "remu", "remw", "remuw"}
Mul == {"mul", "mulh", "mulhsu", "mulhu", "mulw"}
Loads == {"lb", "lh", "lw", "ld", "lbu", "lhu", "lwu"}
Stores == {"sb", "sh", "sw", "sd", "sc.w", "sc.d"}
Branches == {"beq", "bne", "blt", "bge", "bltu", "bgeu", "jal", "jalr"}

InstCost(inst_name, count) ==
    IF inst_name \in DivRem THEN count * 25
    ELSE IF inst_name \in Mul THEN count * 5
    ELSE IF inst_name \in Loads THEN count * 3
    ELSE IF inst_name \in Stores THEN count * 3
    ELSE IF inst_name \in Branches THEN count * 3
    ELSE count

RECURSIVE SumCost(_, _)
SumCost(inst_count, names) ==
    IF names = {} THEN 0
    ELSE LET n == CHOOSE x \in names : TRUE
         IN  InstCost(n, inst_count[n]) + SumCost(inst_count, names \ {n})

TotalCost(inst_count) == SumCost(inst_count, DOMAIN inst_count)

abi_decode_cost == 9175538

\* r55_gas_used(inst_count): total_cost - abi_decode_cost on u64.
r55_gas_used(checks, inst_count) ==
    CheckedSub(checks, TotalCost(inst_count), abi_decode_cost)

\* ------------------------------------------------------------ host answers
\* Block and transaction environment the host reports (host.env()).
Env ==
    [basefee   |-> <<7, 0, 0, 0>>,
     chain_id  |-> 1,
     gas_limit |-> <<30, 1, 0, 0>>,
     number    |-> <<5, 0, 0, 0>>,
     timestamp |-> <<1700, 0, 0, 0>>,
     gas_price |-> <<42, 0, 0, 0>>]

\* The sum of the first n bytes, each weighted by its position.
RECURSIVE ByteSum(_, _)
ByteSum(bytes, n) == IF n = 0 THEN 0 ELSE ByteSum(bytes, n - 1) + n * bytes[n]

\* Keccak256 is not computed: an injective-enough digest of the input, as
\* four limbs.
Keccak(bytes) ==
    << Len(bytes) + 1,
       IF Len(bytes) > 0 THEN ByteSum(bytes, Len(bytes)) + 1 ELSE 0,
       IF Len(bytes) > 1 THEN bytes[Len(bytes)] + 1 ELSE 0,
       9 >>

\* Host storage: a map from <<address, key>> to the value; an absent slot
\* holds zero.
SLoadValue(storage, addr, key) ==
    IF <<addr, key>> \in DOMAIN storage THEN storage[<<addr, key>>] ELSE U256Zero

\* A host that takes the store and keeps nothing.
SStoreDropped(storage, addr, key, value) == storage

SStoreValue(storage, addr, key, value) ==
    [k \in (DOMAIN storage) \cup {<<addr, key>>} |->
        IF k = <<addr, key>> THEN value ELSE storage[k]]

\* ------------------------------------------------------ interpreter actions
NoAction == [type |-> "None"]

ReturnAction(result, output, gas) ==
    [type |-> "Return", result |-> result, output |-> output, gas |-> gas]

\* InterpreterAction::is_return
IsReturn(action) == action.type = "Return"

\* ------------------------------------------------- execute_riscv: one step
\* What one iteration of the emulator loop leaves: kind is "Continue" (the
\* loop runs on), "Action" (Ok(action) is returned), "HardError" (Err is
\* returned) or "Panic".
Outcome(kind, emu, gas, action, host) ==
    [kind |-> kind, emu |-> emu, gas |-> gas, action |-> action, host |-> host]

Continue(emu, gas, host) == Outcome("Continue", emu, gas, NoAction, host)
Yield(emu, gas, action, host) == Outcome("Action", emu, gas, action, host)
HardError(emu, gas, host) == Outcome("HardError", emu, gas, NoAction, host)
Panic(emu, gas, host) == Outcome("Panic", emu, gas, NoAction, host)

\* A return_revert that reports the gas as it finds it.
ReturnRevertNoCharge(emu, gas, gas_used, host) ==
    Yield(emu, gas, ReturnAction("Revert", << >>, gas), host)

\* The closure return_revert(interpreter, gas_used).
return_revert(emu, gas, gas_used, host) ==
    LET g == RecordCost(gas, gas_used)
    IN  Yield(emu, g, ReturnAction("Revert", << >>, g), host)

\* syscall_gas!: the early return when record_cost fails.
OutOfGas(emu, gas, host) == Yield(emu, gas, ReturnAction("OutOfGas", << >>, gas), host)

\* Four 64-bit limbs into a0..a3.
WriteLimbs(xregs, limbs) ==
    [xregs EXCEPT ![10] = limbs[1], ![11] = limbs[2], ![12] = limbs[3], ![13] = limbs[4]]

\* A packing that leaves bytes 16..20 in the lower half of the third
\* register.
WriteAddressLow(xregs, addr) ==
    [xregs EXCEPT ![10] = addr[1] * HalfMod + addr[2],
                  ![11] = addr[3] * HalfMod + addr[4],
                  ![12] = addr[5]]

\* A 20-byte address into a0..a2: bytes 0..8, bytes 8..16, and bytes 16..20
\* in the upper half of the third register.
WriteAddress(xregs, addr) ==
    [xregs EXCEPT ![10] = addr[1] * HalfMod + addr[2],
                  ![11] = addr[3] * HalfMod + addr[4],
                  ![12] = addr[5] * HalfMod]

\* Syscall::Return
SysReturn(checks, emu, interp, host) ==
    LET ret_offset == emu.xregs[10]
        ret_size == emu.xregs[11]
        r55_gas == r55_gas_used(checks, emu.inst_counter)
    IN  IF r55_gas.panic THEN Panic(emu, interp.gas, host)
        ELSE IF ~RecordCostOk(interp.gas, r55_gas.val) THEN OutOfGas(emu, interp.gas, host)
        ELSE LET g == RecordCost(interp.gas, r55_gas.val)
                 data == dram_slice(checks, emu.dram, ret_offset, ret_size)
             IN  CASE data.kind = "Panic" -> Panic(emu, g, host)
                   [] data.kind = "Err" -> HardError(emu, g, host)
                   [] OTHER -> Yield(emu, g, ReturnAction("Return", data.bytes, g), host)

\* Syscall::Revert
SysRevert(checks, emu, interp, host) ==
    LET data == dram_slice(checks, emu.dram, emu.xregs[10], emu.xregs[11])
    IN  CASE data.kind = "Panic" -> Panic(emu, interp.gas, host)
          [] data.kind = "Err" -> HardError(emu, interp.gas, host)
          [] OTHER -> Yield(emu, interp.gas,
                            ReturnAction("Revert", data.bytes, interp.gas), host)

\* Syscall::SLoad; `answer` is what host.sload returns: "None", "Cold" or "Warm".
SysSLoad(emu, interp, host, answer) ==
    LET key == <<emu.xregs[10], emu.xregs[11], emu.xregs[12], emu.xregs[13]>>
    IN  IF answer = "None"
        THEN return_revert(emu, interp.gas, GasSpent(interp.gas), host)
        ELSE LET data == SLoadValue(host.storage, interp.target_address, key)
                 e == [emu EXCEPT !.xregs = WriteLimbs(emu.xregs, data)]
                 cost == IF answer = "Cold" THEN SLOAD_COLD ELSE SLOAD_WARM
             IN  IF ~RecordCostOk(interp.gas, cost) THEN OutOfGas(e, interp.gas, host)
                 ELSE Continue(e, RecordCost(interp.gas, cost), host)

\* Syscall::SStore; `answer` is what host.sstore returns.
SysSStore(emu, interp, host, answer) ==
    LET key == <<emu.xregs[10], emu.xregs[11], emu.xregs[12], emu.xregs[13]>>
        value == <<emu.xregs[14], emu.xregs[15], emu.xregs[16], emu.xregs[17]>>
    IN  IF answer = "None" THEN Continue(emu, interp.gas, host)
        ELSE LET h == [host EXCEPT !.storage =
                          SStoreValue(host.storage, interp.target_address, key, value)]
                 cost == IF answer = "Cold" THEN SSTORE_COLD ELSE SSTORE_WARM
             IN  IF ~RecordCostOk(interp.gas, cost) THEN OutOfGas(emu, interp.gas, h)
                 ELSE Continue(emu, RecordCost(interp.gas, cost), h)

\* Syscall::ReturnDataSize
SysReturnDataSize(emu, interp, host) ==
    Continue([emu EXCEPT !.xregs[10] = Len(interp.return_data_buffer)], interp.gas, host)

\* Syscall::ReturnDataCopy
SysReturnDataCopy(checks, emu, interp, host) ==
    LET dest_offset == emu.xregs[10]
        offset == emu.xregs[11]
        size == emu.xregs[12]
        src_end == CheckedAdd(checks, offset, size)
        buf == interp.return_data_buffer
    IN  IF src_end.panic \/ offset > src_end.val \/ src_end.val > Len(buf)
        THEN Panic(emu, interp.gas, host)
        ELSE LET data == SubSeq(buf, offset + 1, offset + size)
                 dst_end == CheckedAdd(checks, dest_offset, size)
             IN  IF dst_end.panic THEN Panic(emu, interp.gas, host)
                 ELSE IF ~GetDramSliceOk(dest_offset, dst_end.val)
                      THEN HardError(emu, interp.gas, host)
                 ELSE Continue([emu EXCEPT !.dram = WriteMem(emu.dram, dest_offset, data)],
                               interp.gas, host)

\* execute_call(emu, interpreter, host, is_static); `answer` is what
\* host.load_account_delegated returns.
execute_call(checks, emu, interp, host, is_static, answer) ==
    LET addr == AddressFromLimbs(emu.xregs[10], emu.xregs[11], emu.xregs[12])
        value == emu.xregs[13]
        calldata == SliceOrEmpty(checks, emu.dram, emu.xregs[14], emu.xregs[15])
        empty_account_cost == IF answer = "None" THEN CALL_EMPTY_ACCOUNT ELSE 0
        addr_access_cost == IF answer = "Warm" THEN CALL_BASE ELSE CALL_NEW_ACCOUNT
        value_cost == IF value # 0 THEN CALL_VALUE ELSE 0
        call_gas_cost == empty_account_cost + addr_access_cost + value_cost
    IN  IF calldata.kind = "Panic" THEN Panic(emu, interp.gas, host)
        ELSE IF ~RecordCostOk(interp.gas, call_gas_cost) THEN OutOfGas(emu, interp.gas, host)
        ELSE LET g1 == RecordCost(interp.gas, call_gas_cost)
                 call_gas_limit == g1.remaining
                 g2 == RecordCost(g1, call_gas_limit)
             IN  Yield(emu, g2,
                       [type |-> "Call",
                        inputs |-> [input |-> calldata.bytes,
                                    gas_limit |-> call_gas_limit,
                                    target_address |-> addr,
                                    bytecode_address |-> addr,
                                    caller |-> interp.target_address,
                                    value |-> value,
                                    is_static |-> is_static]],
                       host)

\* A Caller that reports the transaction's sender.
SysCallerAsSender(emu, interp, host) ==
    Continue([emu EXCEPT !.xregs = WriteAddress(emu.xregs, host.tx_caller)], interp.gas, host)

\* Syscall::Caller / Syscall::Origin
SysCaller(emu, interp, host) ==
    Continue([emu EXCEPT !.xregs = WriteAddress(emu.xregs, interp.caller)], interp.gas, host)

SysOrigin(emu, interp, host) ==
    Continue([emu EXCEPT !.xregs = WriteAddress(emu.xregs, host.tx_caller)], interp.gas, host)

\* Syscall::Keccak256
SysKeccak256(checks, emu, interp, host) ==
    LET data == dram_slice(checks, emu.dram, emu.xregs[10], emu.xregs[11])
    IN  CASE data.kind = "Panic" -> Panic(emu, interp.gas, host)
          [] data.kind = "Err" -> HardError(emu, interp.gas, host)
          [] OTHER -> Continue([emu EXCEPT !.xregs = WriteLimbs(emu.xregs, Keccak(data.bytes))],
                               interp.gas, host)

\* Syscalls that report a 256-bit environment value in a0..a3.
SysLimbs(emu, interp, host, limbs) ==
    Continue([emu EXCEPT !.xregs = WriteLimbs(emu.xregs, limbs)], interp.gas, host)

\* Syscall::ChainId
SysChainId(emu, interp, host) ==
    Continue([emu EXCEPT !.xregs[10] = Env.chain_id], interp.gas, host)

\* topics_size * 32 on u64.
CheckedMul32(checks, a) ==
    IF a >= U64Mod \div 32
    THEN [panic |-> checks, val |-> (a % (U64Mod \div 32)) * 32]
    ELSE [panic |-> FALSE, val |-> a * 32]

\* chunks(32) of a slice whose length is a multiple of 32.
Chunks32(bytes) == [i \in 1..(Len(bytes) \div 32) |-> SubSeq(bytes, 32 * (i - 1) + 1, 32 * i)]

\* Syscall::Log
SysLog(checks, emu, interp, host) ==
    LET data_ptr == emu.xregs[10]
        data_size == emu.xregs[11]
        topics_ptr == emu.xregs[12]
        topics_size == emu.xregs[13]
        data == SliceOrEmpty(checks, emu.dram, data_ptr, data_size)
        topics_len == CheckedMul32(checks, topics_size)
        topics == SliceOrEmpty(checks, emu.dram, topics_ptr, topics_len.val)
    IN  IF data.kind = "Panic" \/ topics_len.panic \/ topics.kind = "Panic"
        THEN Panic(emu, interp.gas, host)
        ELSE Continue(emu, interp.gas,
                      [host EXCEPT !.logs = Append(host.logs,
                          [address |-> interp.target_address,
                           topics |-> Chunks32(topics.bytes),
                           data |-> data.bytes])])

\* Syscall::Create: the init code is read from emulator memory and a host
\* CREATE action is yielded with the frame's remaining gas.
execute_create(checks, emu, interp, host) ==
    LET value == emu.xregs[10]
        init_code == dram_slice(checks, emu.dram, emu.xregs[11], emu.xregs[12])
    IN  IF init_code.kind # "Ok"
        THEN return_revert(emu, interp.gas, GasSpent(interp.gas), host)
        ELSE LET create_gas_limit == interp.gas.remaining
                 g == RecordCost(interp.gas, create_gas_limit)
             IN  Yield(emu, g,
                       [type |-> "Create",
                        inputs |-> [init_code |-> init_code.bytes,
                                    gas_limit |-> create_gas_limit,
                                    caller |-> interp.target_address,
                                    value |-> value]],
                       host)

\* A 4-byte chunk of an address as big-endian bytes.
ChunkBytes(c) == <<0, 0, c \div 256, c % 256>>
AddressBytes(addr) ==
    ChunkBytes(addr[1]) \o ChunkBytes(addr[2]) \o ChunkBytes(addr[3])
        \o ChunkBytes(addr[4]) \o ChunkBytes(addr[5])

\* Syscall::ReturnCreateAddress: the address cached by the last creation is
\* written to emulator memory at a0.
SysReturnCreateAddress(checks, emu, interp, host, created_address) ==
    LET dest == emu.xregs[10]
        end == CheckedAdd(FALSE, dest, 20)
    IN  IF ~GetDramSliceOk(dest, end.val) \/ end.val < dest
        THEN return_revert(emu, interp.gas, GasSpent(interp.gas), host)
        ELSE Continue([emu EXCEPT !.dram = WriteMem(emu.dram, dest, AddressBytes(created_address))],
                      interp.gas, host)

\* The Err(e) arm: any exception other than the environment call.
Fault(checks, emu, interp, host) ==
    LET r55_gas == r55_gas_used(checks, emu.inst_counter)
    IN  IF r55_gas.panic THEN Panic(emu, interp.gas, host)
        ELSE IF ~RecordCostOk(interp.gas, r55_gas.val) THEN OutOfGas(emu, interp.gas, host)
        ELSE LET g == RecordCost(interp.gas, r55_gas.val)
             IN  return_revert(emu, g, GasSpent(g), host)

\* `Syscall::try_from(t0 as u8)`
DecodeSyscall(t0) == TryFromU8(AsU8(t0))

\* The Err(EnvironmentCallFromMMode) arm: decode t0 and serve the syscall.
\* `answer` is the host's reply where the syscall asks the host.
Ecall(checks, emu, interp, host, created_address, answer) ==
    LET syscall == DecodeSyscall(emu.xregs[5])
    IN  CASE syscall = "UnknownOpcode" ->
                 return_revert(emu, interp.gas, GasSpent(interp.gas), host)
          [] syscall = "Return" -> SysReturn(checks, emu, interp, host)
          [] syscall = "SLoad" -> SysSLoad(emu, interp, host, answer)
          [] syscall = "SStore" -> SysSStore(emu, interp, host, answer)
          [] syscall = "ReturnDataSize" -> SysReturnDataSize(emu, interp, host)
          [] syscall = "ReturnDataCopy" -> SysReturnDataCopy(checks, emu, interp, host)
          [] syscall = "Call" -> execute_call(checks, emu, interp, host, FALSE, answer)
          [] syscall = "StaticCall" -> execute_call(checks, emu, interp, host, TRUE, answer)
          [] syscall = "Revert" -> SysRevert(checks, emu, interp, host)
          [] syscall = "Caller" -> SysCaller(emu, interp, host)
          [] syscall = "Keccak256" -> SysKeccak256(checks, emu, interp, host)
          [] syscall = "CallValue" -> SysLimbs(emu, interp, host, interp.call_value)
          [] syscall = "BaseFee" -> SysLimbs(emu, interp, host, Env.basefee)
          [] syscall = "ChainId" -> SysChainId(emu, interp, host)
          [] syscall = "GasLimit" -> SysLimbs(emu, interp, host, Env.gas_limit)
          [] syscall = "Number" -> SysLimbs(emu, interp, host, Env.number)
          [] syscall = "Timestamp" -> SysLimbs(emu, interp, host, Env.timestamp)
          [] syscall = "GasPrice" -> SysLimbs(emu, interp, host, Env.gas_price)
          [] syscall = "Origin" -> SysOrigin(emu, interp, host)
          [] syscall = "Log" -> SysLog(checks, emu, interp, host)
          [] syscall = "Create" -> execute_create(checks, emu, interp, host)
          [] syscall = "ReturnCreateAddress" ->
                 SysReturnCreateAddress(checks, emu, interp, host, created_address)

\* One iteration of execute_riscv's loop: `match emu.start()`.
\* run is what emu.start() returned: "Ecall", "Fault" or "Ok".
LoopIteration(checks, run, emu, interp, host, created_address, answer) ==
    CASE run = "Ecall" -> Ecall(checks, emu, interp, host, created_address, answer)
      [] run = "Ok" -> Continue(emu, interp.gas, host)
      [] OTHER -> Fault(checks, emu, interp, host)

\* ------------------------------------------------------------ host engine
\* Gas::new(limit)
NewGas(limit) == [limit |-> limit, remaining |-> limit]

NEWA == <<0, 0, 0, 0, 99>>

\* The frame make_call_frame builds for `inputs`.
CallFrame(inputs, host) ==
    [is_create |-> FALSE,
     bytecode |-> Padded(Code(inputs.bytecode_address)),
     input |-> inputs.input,
     target_address |-> inputs.target_address,
     caller |-> inputs.caller,
     call_value |-> <<inputs.value, 0, 0, 0>>,
     gas |-> NewGas(inputs.gas_limit),
     return_data_buffer |-> << >>,
     is_static |-> inputs.is_static,
     checkpoint |-> [storage |-> host.storage, logs |-> host.logs]]

\* The frame make_create_frame builds for `inputs`.
CreateFrame(inputs, host) ==
    [is_create |-> TRUE,
     bytecode |-> Padded(inputs.init_code),
     input |-> << >>,
     target_address |-> NEWA,
     caller |-> inputs.caller,
     call_value |-> <<inputs.value, 0, 0, 0>>,
     gas |-> NewGas(inputs.gas_limit),
     return_data_buffer |-> << >>,
     is_static |-> FALSE,
     checkpoint |-> [storage |-> host.storage, logs |-> host.logs]]

\* An immediate result of the call/create handler: nothing ran, the gas
\* limit comes back whole.
ImmediateResult(result, gas_limit, is_create) ==
    [result |-> result, output |-> << >>, gas |-> NewGas(gas_limit),
     is_create |-> is_create, address |-> NEWA]

\* The host's previous call/create handler (old_handle(ctx, inputs)):
\* Ok(Frame), Ok(Result) or Err.  db_error is the database failing.
OldCallHandle(action, depth, host, db_error) ==
    LET inputs == action.inputs
        is_create == action.type = "Create"
    IN  IF db_error THEN [kind |-> "Err"]
        ELSE IF depth >= CallStackLimit
        THEN [kind |-> "Result",
              result |-> ImmediateResult("CallTooDeep", inputs.gas_limit, is_create)]
        ELSE IF is_create
        THEN [kind |-> "Frame", frame |-> CreateFrame(inputs, host)]
        ELSE IF Code(inputs.bytecode_address) = << >>
        THEN [kind |-> "Result",
              result |-> ImmediateResult("Stop", inputs.gas_limit, FALSE)]
        ELSE [kind |-> "Frame", frame |-> CallFrame(inputs, host)]

\* return_ok! / return_revert! of the host
ResultOk(result) == result \in {"Return", "Stop"}
ResultRevert(result) == result = "Revert"

\* insert_call_outcome / insert_create_outcome: the parent frame takes the
\* child's output as its return data and the child's unspent gas back.
InsertOutcome(frame, outcome) ==
    [frame EXCEPT
        !.return_data_buffer = outcome.output,
        !.gas.remaining = IF ResultOk(outcome.result) \/ ResultRevert(outcome.result)
                          THEN @ + outcome.gas.remaining ELSE @]

\* call_return / create_return: a frame that did not succeed has its state
\* changes reverted to the checkpoint taken when it was created.
FrameReturn(frame, action, host) ==
    IF ResultOk(action.result) THEN host
    ELSE [host EXCEPT !.storage = frame.checkpoint.storage,
                      !.logs = frame.checkpoint.logs]

\* The transaction's ExecutionResult for the last frame's result.
ExecutionResult(outcome, host) ==
    IF ResultOk(outcome.result)
    THEN [kind |-> "Success", output |-> outcome.output, logs |-> host.logs,
          is_create |-> outcome.is_create,
          gas_used |-> outcome.gas.limit - outcome.gas.remaining]
    ELSE IF ResultRevert(outcome.result)
    THEN [kind |-> "Revert", output |-> outcome.output,
          gas_used |-> outcome.gas.limit - outcome.gas.remaining]
    ELSE [kind |-> "Halt", reason |-> outcome.result, gas_used |-> outcome.gas.limit]

\* run_tx / deploy_contract: `match result`.
run_tx(result) ==
    IF result.kind = "Success" /\ ~result.is_create
    THEN [ok |-> TRUE,
          value |-> [output |-> result.output, logs |-> result.logs,
                     gas_used |-> result.gas_used, status |-> TRUE]]
    ELSE [ok |-> FALSE, err |-> "UnexpectedExecResult", result |-> result]

deploy_contract(result) ==
    IF result.kind = "Success" /\ result.is_create
    THEN [ok |-> TRUE, value |-> NEWA]
    ELSE [ok |-> FALSE, err |-> "UnexpectedExecResult", result |-> result]

\* `evm.transact_commit()?`: a hard error of the transaction.
EvmError == [ok |-> FALSE, err |-> "EvmError"]

\* Error::matches_custom_error_with_args on the run_tx error: selector is
\* keccak256(err)[..4].  "Panic" is the slice output[..4] out of range.
matches_custom_error_with_args(res, selector, args) ==
    IF ~res.ok /\ res.err = "UnexpectedExecResult" /\ res.result.kind = "Revert"
    THEN LET output == res.result.output
         IN  IF Len(output) < 4 THEN "Panic"
             ELSE IF SubSeq(output, 1, 4) # selector THEN "false"
             ELSE IF args # << >> /\ SubSeq(output, 5, Len(output)) # args THEN "false"
             ELSE "true"
    ELSE "false"

\* ---------------------------------------------------------- the bridge hooks
\* handle_register, call/create hook: the slot pushed for what the previous
\* handler returned.
PushOnFrame(call_stack, slot) == Append(call_stack, slot)

\* handle_register, execute_frame hook: `if let Some(Some(riscv_context)) =
\* call_stack.borrow_mut().last_mut()`.
UseRiscv(call_stack) ==
    Len(call_stack) > 0 /\ call_stack[Len(call_stack)].some

\* A hook that would pop after every action.
PopAlways(call_stack, result) ==
    IF Len(call_stack) > 0 THEN SubSeq(call_stack, 1, Len(call_stack) - 1)
    ELSE call_stack

\* handle_register, execute_frame hook: `if result.is_return() { pop }`.
PopOnReturn(call_stack, result) ==
    IF IsReturn(result) /\ Len(call_stack) > 0
    THEN SubSeq(call_stack, 1, Len(call_stack) - 1)
    ELSE call_stack

\* `let depth = call_stack.borrow().len() - 1`
DepthPanics(checks, call_stack) == checks /\ Len(call_stack) = 0

\* A hook that would step the outermost context.
SetBottomEmu(call_stack, emu) ==
    [call_stack EXCEPT ![1].emu = emu]

\* The context of the top slot, replaced after a step.
SetTopEmu(call_stack, emu) ==
    [call_stack EXCEPT ![Len(call_stack)].emu = emu]

\* A context that keeps no address of a finished creation.
CacheNothing(call_stack, outcome) == call_stack

\* The address of a finished creation, cached in the creator's context.
CacheCreatedAddress(call_stack, outcome) ==
    IF outcome.is_create /\ UseRiscv(call_stack)
    THEN [call_stack EXCEPT ![Len(call_stack)].created_address = outcome.address]
    ELSE call_stack

\* ------------------------------------------------------- example contracts
\* The width of U256, scaled: amounts and balances are 0 .. U256Mod - 1.
U256Mod == 4

\* The accounts of the token tests, and Address::ZERO.
ZeroAddress == <<0, 0, 0, 0, 0>>
BOB == <<0, 0, 0, 0, 11>>
\* The address of the deployed ERC20x contract, the third account of the token.
erc20x == <<0, 0, 0, 0, 12>>
Accounts == {ALICE, BOB, erc20x}

\* a + b on U256: the sum wraps, or the addition panics in a build that
\* checks overflow.
Add256(checks, a, b) ==
    IF a + b >= U256Mod
    THEN [panic |-> checks, val |-> (a + b) % U256Mod, exact |-> a + b]
    ELSE [panic |-> FALSE, val |-> a + b, exact |-> a + b]

\* What a method of a contract leaves: the storage, Ok or the error (with
\* its argument), and the events emitted.  A method that returns Err or
\* panics reverts: the storage is as it was and no event is kept.
Done(state, events) == [state |-> state, ok |-> TRUE, error |-> "none", arg |-> 0,
                        events |-> events, overflow |-> FALSE,
                        amount |-> 0, sub_calls |-> << >>]
Err(state, error, arg) == [state |-> state, ok |-> FALSE, error |-> error, arg |-> arg,
                           events |-> << >>, overflow |-> FALSE,
                           amount |-> 0, sub_calls |-> << >>]
Panicked(state) == Err(state, "Panic", 0)

\* The result of a method in which an addition wrapped.
Wrapped(result, sums) ==
    [result EXCEPT !.overflow = \E sum \in sums : sum.val # sum.exact]

\* ERC20::new(owner): every slot of the #[storage] struct is unset but owner.
ERC20New(owner) ==
    [total_supply |-> 0,
     balance_of |-> [a \in Accounts |-> 0],
     allowance_of |-> [a \in Accounts |-> [b \in Accounts |-> 0]],
     owner |-> owner]

\* A mint that adds nothing to the total supply.
MintKeepsSupply(erc20, msg_sender, to, amount, checks) ==
    IF msg_sender # erc20.owner THEN Err(erc20, "OnlyOwner", 0)
    ELSE IF amount = 0 THEN Err(erc20, "ZeroAmount", 0)
    ELSE IF to = ZeroAddress THEN Err(erc20, "ZeroAddress", 0)
    ELSE Done([erc20 EXCEPT !.balance_of[to] = (@ + amount) % U256Mod],
              << [name |-> "Transfer", from |-> ZeroAddress, to |-> to, amount |-> amount] >>)

\* ERC20::mint(&mut self, to, amount), called by msg_sender.
mint(erc20, msg_sender, to, amount, checks) ==
    IF msg_sender # erc20.owner THEN Err(erc20, "OnlyOwner", 0)
    ELSE IF amount = 0 THEN Err(erc20, "ZeroAmount", 0)
    ELSE IF to = ZeroAddress THEN Err(erc20, "ZeroAddress", 0)
    ELSE LET to_balance == Add256(checks, erc20.balance_of[to], amount)
             supply == Add256(checks, erc20.total_supply, amount)
         IN  IF to_balance.panic \/ supply.panic THEN Panicked(erc20)
             ELSE Wrapped(Done([erc20 EXCEPT !.balance_of[to] = to_balance.val,
                                             !.total_supply = supply.val],
                               << [name |-> "Transfer", from |-> ZeroAddress, to |-> to,
                                   amount |-> amount] >>),
                          {to_balance, supply})

\* ERC20::approve(&mut self, spender, amount)
approve(erc20, msg_sender, spender, amount) ==
    IF spender = ZeroAddress THEN Err(erc20, "ZeroAddress", 0)
    ELSE IF spender = msg_sender THEN Err(erc20, "SelfApproval", 0)
    ELSE Done([erc20 EXCEPT !.allowance_of[msg_sender][spender] = amount],
              << [name |-> "Approval", from |-> msg_sender, to |-> spender,
                  amount |-> amount] >>)

\* ERC20::transfer(&mut self, to, amount)
transfer(erc20, msg_sender, to, amount, checks) ==
    LET from == msg_sender
    IN  IF to = ZeroAddress THEN Err(erc20, "ZeroAddress", 0)
        ELSE IF amount = 0 THEN Err(erc20, "ZeroAmount", 0)
        ELSE IF from = to THEN Err(erc20, "SelfTransfer", 0)
        ELSE LET from_balance == erc20.balance_of[from]
                 to_balance == Add256(checks, erc20.balance_of[to], amount)
             IN  IF from_balance < amount
                 THEN Err(erc20, "InsufficientBalance", from_balance)
                 ELSE IF to_balance.panic THEN Panicked(erc20)
                 ELSE Wrapped(Done([erc20 EXCEPT !.balance_of[from] = from_balance - amount,
                                                 !.balance_of[to] = to_balance.val],
                                   << [name |-> "Transfer", from |-> from, to |-> to,
                                       amount |-> amount] >>),
                              {to_balance})

\* A transfer_from that looks at the balance before the allowance.
TransferFromBalanceFirst(erc20, msg_sender, from, to, amount, checks) ==
    IF to = ZeroAddress THEN Err(erc20, "ZeroAddress", 0)
    ELSE IF amount = 0 THEN Err(erc20, "ZeroAmount", 0)
    ELSE IF from = to THEN Err(erc20, "SelfTransfer", 0)
    ELSE IF erc20.balance_of[from] < amount
         THEN Err(erc20, "InsufficientBalance", erc20.balance_of[from])
    ELSE IF erc20.allowance_of[from][msg_sender] < amount
         THEN Err(erc20, "InsufficientAllowance", erc20.allowance_of[from][msg_sender])
    ELSE Done([erc20 EXCEPT !.allowance_of[from][msg_sender] = @ - amount,
                            !.balance_of[from] = @ - amount,
                            !.balance_of[to] = (@ + amount) % U256Mod],
              << [name |-> "Transfer", from |-> from, to |-> to, amount |-> amount] >>)

\* ERC20::transfer_from(&mut self, from, to, amount)
transfer_from(erc20, msg_sender, from, to, amount, checks) ==
    IF to = ZeroAddress THEN Err(erc20, "ZeroAddress", 0)
    ELSE IF amount = 0 THEN Err(erc20, "ZeroAmount", 0)
    ELSE IF from = to THEN Err(erc20, "SelfTransfer", 0)
    ELSE LET allowance == erc20.allowance_of[from][msg_sender]
             from_balance == erc20.balance_of[from]
             to_balance == Add256(checks, erc20.balance_of[to], amount)
         IN  IF allowance < amount THEN Err(erc20, "InsufficientAllowance", allowance)
             ELSE IF from_balance < amount
             THEN Err(erc20, "InsufficientBalance", from_balance)
             ELSE IF to_balance.panic THEN Panicked(erc20)
             ELSE Wrapped(Done([erc20 EXCEPT
                                   !.allowance_of[from][msg_sender] = allowance - amount,
                                   !.balance_of[from] = from_balance - amount,
                                   !.balance_of[to] = to_balance.val],
                               << [name |-> "Transfer", from |-> from, to |-> to,
                                   amount |-> amount] >>),
                          {to_balance})

\* ERC20::transfer_ownership(&mut self, new_owner)
transfer_ownership(erc20, msg_sender, new_owner) ==
    IF msg_sender # erc20.owner THEN Err(erc20, "OnlyOwner", 0)
    ELSE IF msg_sender = new_owner THEN Err(erc20, "SelfTransfer", 0)
    ELSE Done([erc20 EXCEPT !.owner = new_owner],
              << [name |-> "OwnershipTransferred", from |-> msg_sender,
                  to |-> new_owner, amount |-> 0] >>)

\* ERC20x::x_transfer_from(&mut self, from, amount, token_addr), called by
\* msg_sender: the token sees the ERC20x contract as the caller of its
\* transfer_from.  A sub-call that reverted with no error data (a panic of the
\* token) makes the decoding of the error panic in turn.  The result carries
\* the sub-calls made, each with its amount and its result.
x_transfer_from(erc20, msg_sender, from, amount, checks) ==
    LET to == msg_sender
        first == transfer_from(erc20, erc20x, from, to, amount, checks)
        second == transfer_from(erc20, erc20x, from, to, first.arg, checks)
    IN  IF ~first.ok /\ first.error \in {"InsufficientBalance", "InsufficientAllowance"}
        THEN [second EXCEPT !.sub_calls = << [first EXCEPT !.amount = amount],
                                            [second EXCEPT !.amount = first.arg] >>]
        ELSE [first EXCEPT !.sub_calls = << [first EXCEPT !.amount = amount] >>]

\* Token ids of the ERC721 example.
Ids == {1, 2}

\* U256 subtraction, which wraps.
Sub256(a, b) == (a - b + U256Mod) % U256Mod

\* The result of an ERC721 method.
Ok721(state) == [state |-> state, ok |-> TRUE, error |-> "none"]
Err721(state, error) == [state |-> state, ok |-> FALSE, error |-> error]

\* ERC721::new(owner): every mapping reads as zero.
ERC721New(owner) ==
    [total_supply |-> 0,
     owner_of |-> [id \in Ids |-> ZeroAddress],
     balance_of |-> [a \in Accounts \cup {ZeroAddress} |-> 0],
     approval_of |-> [id \in Ids |-> ZeroAddress],
     is_operator |-> [a \in Accounts \cup {ZeroAddress} |->
                        [b \in Accounts \cup {ZeroAddress} |-> FALSE]],
     owner |-> owner]

\* ERC721::mint(&mut self, to, id), called by msg_sender.  Each id is minted
\* at most once, so the two sums stay below the number of ids.
erc721_mint(erc721, msg_sender, to, id) ==
    IF to = ZeroAddress THEN Err721(erc721, "ZeroAddress")
    ELSE IF msg_sender # erc721.owner THEN Err721(erc721, "OnlyOwner")
    ELSE IF erc721.owner_of[id] # ZeroAddress THEN Err721(erc721, "AlreadyMinted")
    ELSE Ok721([erc721 EXCEPT !.owner_of[id] = to,
                              !.balance_of[to] = Add256(FALSE, @, 1).val,
                              !.total_supply = Add256(FALSE, @, 1).val])

\* ERC721::approve(&mut self, spender, id)
erc721_approve(erc721, msg_sender, spender, id) ==
    LET owner == erc721.owner_of[id]
    IN  IF msg_sender # owner /\ ~erc721.is_operator[owner][msg_sender]
        THEN Err721(erc721, "Unauthorized")
        ELSE Ok721([erc721 EXCEPT !.approval_of[id] = spender])

\* ERC721::set_approval_for_all(&mut self, operator, approved)
set_approval_for_all(erc721, msg_sender, operator, approved) ==
    Ok721([erc721 EXCEPT !.is_operator[msg_sender][operator] = approved])

\* A transfer_from that asks for no authorization.
TransferFromUnchecked(erc721, msg_sender, from, to, id) ==
    IF from # erc721.owner_of[id] THEN Err721(erc721, "WrongFrom")
    ELSE IF to = ZeroAddress THEN Err721(erc721, "ZeroAddress")
    ELSE LET debited == [erc721 EXCEPT !.owner_of[id] = to,
                                       !.balance_of[from] = Sub256(@, 1)]
         IN  Ok721([debited EXCEPT !.balance_of[to] = Add256(FALSE, @, 1).val,
                                   !.approval_of[id] = ZeroAddress])

\* ERC721::transfer_from(&mut self, from, to, id): the balance of `to` is read
\* after that of `from` is written.
erc721_transfer_from(erc721, msg_sender, from, to, id) ==
    LET sender == msg_sender
    IN  IF from # erc721.owner_of[id] THEN Err721(erc721, "WrongFrom")
        ELSE IF to = ZeroAddress THEN Err721(erc721, "ZeroAddress")
        ELSE IF /\ sender # from
                /\ ~erc721.is_operator[from][sender]
                /\ sender # erc721.approval_of[id]
             THEN Err721(erc721, "Unauthorized")
        ELSE LET debited == [erc721 EXCEPT !.owner_of[id] = to,
                                           !.balance_of[from] = Sub256(@, 1)]
             IN  Ok721([debited EXCEPT !.balance_of[to] = Add256(FALSE, @, 1).val,
                                       !.approval_of[id] = ZeroAddress])

\* ERC721::transfer_ownership(&mut self, new_owner)
erc721_transfer_ownership(erc721, msg_sender, new_owner) ==
    IF msg_sender # erc721.owner THEN Err721(erc721, "OnlyOwner")
    ELSE Ok721([erc721 EXCEPT !.owner = new_owner])

\* ------------------------------------------------------------------- state
VARIABLES
    pc,               \* "idle", "exec", "riscv", "action", "done", "error", "panic"
    host_stack,       \* the host engine's frames, outermost first
    call_stack,       \* handle_register's call_stack: one slot per frame
    next_action,      \* the InterpreterAction the last execute_frame returned
    host,             \* storage, logs and the transaction caller
    tx,               \* the entry point that runs the transaction
    tx_result,        \* what run_tx / deploy_contract returned
    steps,            \* execute-frame steps taken
    next_id,          \* names the next emulator instance
    step,             \* the last execute-frame step, as observed; cleared
                      \* when the host goes on to another frame
    contracts         \* the storage of the example contracts and a count of
                      \* the calls made to them

vars == <<pc, host_stack, call_stack, next_action, host, tx,
          tx_result, steps, next_id, step, contracts>>

\* ------------------------------------------------------------------ inputs
\* What the contract leaves in memory: an ABI-encoded custom error (4-byte
\* selector, then the argument bytes) and a RISC-V init code.
Selector == <<171, 205, 18, 52>>
ErrorArgs == <<0, 42>>
Payload == Selector \o ErrorArgs
PayloadAddr == DRAM_BASE + 64

\* [0xFF][codesize][bytecode][constructor_args]
GoodInitCode == <<255, 0, 0, 0, 3, 255, 127, 71, 7>>
EvmInitCode == <<96, 0>>
ZeroSizeInitCode == <<255, 0, 0, 0, 0, 255>>
InitCodes == {GoodInitCode, EvmInitCode, ZeroSizeInitCode}
InitCodeAddr == DRAM_BASE + 128

\* The window a caller reserves for the callee's output (res_offset of the
\* runtime's call), memory no program here writes.
ReturnBufferAddr == DRAM_BASE + 96

\* Memory as the program has written it before it traps.
ProgramWrites(dram) ==
    WriteMem(WriteMem(dram, PayloadAddr, Payload), InitCodeAddr, GoodInitCode)

\* Instruction tallies the emulator may have counted.
TSmall == [m \in {"add", "div"} |-> IF m = "div" THEN 40 ELSE 0]
TFit == [m \in {"add", "div"} |-> IF m = "div" THEN 40 ELSE abi_decode_cost]
TBig == [m \in {"add", "div"} |-> IF m = "div" THEN 40000 ELSE abi_decode_cost]
Tallies == {TSmall, TFit, TBig}

\* The counter only grows.
TallyLe(t1, t2) == \A m \in DOMAIN t1 : m \in DOMAIN t2 /\ t1[m] <= t2[m]

\* Registers at an ecall: t0 and the arguments a0.., the rest zero.
Xr(t0, args) ==
    [r \in Regs |-> IF r = 5 THEN t0
                    ELSE IF r - 9 <= Len(args) THEN args[r - 9] ELSE 0]

\* (offset, size) pairs: the payload, an empty range, a range below RAM, a
\* range whose end overflows, a range that runs past the end of RAM.
Ranges ==
    { <<PayloadAddr, 6>>, <<0, 0>>, <<0, 1>>, <<U64Mod - 1, 2>>, <<DRAM_END - 1, 2>> }

\* a0..a2 that execute_call decodes to `addr`.
Limbs(addr) == << addr[4] * HalfMod + addr[5], addr[2] * HalfMod + addr[3], addr[1] >>

K1 == <<1, 0, 0, 0>>
K2 == <<0, 0, 0, 1>>
V1 == <<11, 12, 13, 14>>

UnknownIds == {153, 499, 0}

Traps ==
    { Xr(c, << >>) : c \in {50, 51, 52, 58, 61, 66, 67, 69, 70, 72} \cup UnknownIds }
    \cup { Xr(c, r) : c \in {243, 253, 32}, r \in Ranges }
    \cup { Xr(499, <<PayloadAddr, 6>>) }
    \cup { Xr(84, k) : k \in {K1, K2} }
    \cup { Xr(85, k \o V1) : k \in {K1, K2} }
    \cup { Xr(62, a) : a \in { <<PayloadAddr, 0, 2>>, <<PayloadAddr, 1, 6>>,
                               <<0, 0, 1>>, <<PayloadAddr, U64Mod - 1, 2>> } }
    \cup { Xr(241, Limbs(R55B) \o <<0, PayloadAddr, 6, ReturnBufferAddr, 6>>),
           Xr(241, Limbs(EVMA) \o <<1, 0, 1>>),
           Xr(241, Limbs(EOAA) \o <<0, U64Mod - 1, 2>>),
           Xr(250, Limbs(R55B) \o <<0, PayloadAddr, 6>>),
           Xr(250, Limbs(BADA) \o <<0, 0, 0>>) }
    \cup { Xr(240, <<0, InitCodeAddr, 9>>), Xr(240, <<1, InitCodeAddr, 9>>),
           Xr(240, <<0, 0, 1>>) }
    \cup { Xr(160, <<PayloadAddr, 6, PayloadAddr, 1>>),
           Xr(160, <<0, 1, 0, 0>>),
           Xr(160, <<PayloadAddr, 2, PayloadAddr, U64Mod \div 32>>) }
    \cup { Xr(1, <<PayloadAddr>>), Xr(1, <<0>>) }

\* The programs explored.  The image <<127, 69, ..>> (R55A) traps anywhere in
\* Traps first after its frame starts or resumes and in LoopTraps while the
\* loop runs on; every other image (R55B, constructors) traps in SmallTraps.
LoopTraps ==
    { Xr(c, << >>) : c \in {61, 0} }
    \cup { Xr(c, r) : c \in {243, 253}, r \in {<<PayloadAddr, 6>>, <<0, 1>>} }
    \cup { Xr(84, K1), Xr(62, <<PayloadAddr, 1, 6>>), Xr(62, <<PayloadAddr, 0, 2>>),
            Xr(1, <<PayloadAddr>>) }

SmallTraps ==
    { Xr(c, << >>) : c \in {50, 51, 0} }
    \cup { Xr(c, r) : c \in {243, 253}, r \in {<<PayloadAddr, 6>>, <<0, 1>>} }
    \cup { Xr(85, K1 \o V1), Xr(160, <<PayloadAddr, 6, PayloadAddr, 1>>),
            Xr(241, Limbs(EVMA) \o <<0, PayloadAddr, 6>>) }

TrapsAt(elf, entering) ==
    IF Len(elf) >= 2 /\ elf[2] = 69
    THEN IF entering THEN Traps ELSE LoopTraps
    ELSE SmallTraps

\* Syscalls whose outcome depends on the host's answer.
AsksHost(t0) == DecodeSyscall(t0) \in {"SLoad", "SStore", "Call", "StaticCall"}
Answers(t0) == IF AsksHost(t0) THEN {"None", "Cold", "Warm"} ELSE {"Warm"}

\* The tallies explored with a trap: every one at a fault and at Return,
\* where the tally is charged, one otherwise.
TalliesFor(run, t0) ==
    IF run = "Fault" \/ t0 = 243 THEN Tallies ELSE {TFit}

\* Frame gas of the first frame: run_tx's gas_limit 100_000 less the
\* intrinsic 21_000; deploy_contract runs with the default limit u64::MAX.
RunTxGas == 100000 - 21000
DeployGas == U64Mod - 1 - 53000

\* A gas limit a native caller may pass that pays for no storage access.
LowGas == 50

\* What the host's own interpreter (the previous execute_frame handler) may
\* return for a native frame.  A native CALL names its own gas limit.
NativeActions(frame) ==
    { ReturnAction(r, o, frame.gas) : r \in {"Return", "Revert"}, o \in {<< >>, Payload} }
    \cup { ReturnAction("OutOfGas", << >>, [frame.gas EXCEPT !.remaining = 0]) }
    \cup { [type |-> "Call",
            inputs |-> [input |-> << >>, gas_limit |-> frame.gas.remaining,
                        target_address |-> a, bytecode_address |-> a,
                        caller |-> frame.target_address, value |-> 0,
                        is_static |-> FALSE]] : a \in {R55A, EVMA, EOAA} }
    \cup { [type |-> "Call",
            inputs |-> [input |-> << >>, gas_limit |-> LowGas,
                        target_address |-> R55A, bytecode_address |-> R55A,
                        caller |-> frame.target_address, value |-> 0,
                        is_static |-> FALSE]] }
    \cup { [type |-> "Create",
            inputs |-> [init_code |-> c, gas_limit |-> frame.gas.remaining,
                        caller |-> frame.target_address, value |-> 0]] : c \in InitCodes }

NoStep == [handler |-> "none"]

Init ==
    /\ pc = "idle"
    /\ host_stack = << >>
    /\ call_stack = << >>
    /\ next_action = NoAction
    /\ host = [storage |-> << >>, logs |-> << >>, tx_caller |-> ALICE]
    /\ tx = "none"
    /\ tx_result = [ok |-> FALSE, err |-> "none"]
    /\ steps = 0
    /\ next_id = 1
    /\ step = NoStep
    /\ contracts = [erc20 |-> ERC20New(ALICE), erc721 |-> ERC721New(ALICE),
                    calls |-> 0, overflowed |-> FALSE]

\* ----------------------------------------------------------------- actions
Top(stack) == stack[Len(stack)]
Pop(stack) == SubSeq(stack, 1, Len(stack) - 1)

\* The four bytes least significant first.
U32ToLe(n) == << n % 256, (n \div 256) % 256, (n \div 65536) % 256, (n \div 16777216) % 256 >>

\* codesize.to_be_bytes_vec() of a U32
U32ToBe(n) == << (n \div 16777216) % 256, (n \div 65536) % 256, (n \div 256) % 256, n % 256 >>

\* deploy_contract: the init code crafted for `bytecode` and `encoded_args`.
CraftInitCode(bytecode, encoded_args) ==
    IF Len(bytecode) > 0 /\ bytecode[1] = 255
    THEN <<255>> \o U32ToBe(Len(bytecode)) \o bytecode \o encoded_args
    ELSE bytecode

\* run_tx(db, addr, calldata, caller) and deploy_contract(db, bytecode,
\* encoded_args) build the transaction; the host's first step hands it to
\* the call/create handler.
StartTx ==
    /\ pc = "idle"
    /\ \/ \E addr \in {R55A, EVMA, BADA}, calldata \in {<<1, 2>>} :
            /\ tx' = "run_tx"
            /\ next_action' =
                 [type |-> "Call",
                  inputs |-> [input |-> calldata, gas_limit |-> RunTxGas,
                              target_address |-> addr, bytecode_address |-> addr,
                              caller |-> ALICE, value |-> 0, is_static |-> FALSE]]
       \/ \E bytecode \in {<<255, 127, 71>>, <<96, 0>>}, args \in {<<7>>} :
            /\ tx' = "deploy_contract"
            /\ next_action' =
                 [type |-> "Create",
                  inputs |-> [init_code |-> CraftInitCode(bytecode, args),
                              gas_limit |-> DeployGas,
                              caller |-> ALICE, value |-> 0]]
    /\ pc' = "action"
    /\ UNCHANGED <<host_stack, call_stack, host, tx_result,
                   steps, next_id, step, contracts>>

\* The host hands a frame's result to the frame below, or ends the
\* transaction when there is none.
Deliver(outcome, hs, cs, h) ==
    /\ host' = h
    /\ IF hs = << >>
       THEN /\ pc' = "done"
            /\ tx_result' = IF tx = "run_tx" THEN run_tx(ExecutionResult(outcome, h))
                            ELSE deploy_contract(ExecutionResult(outcome, h))
            /\ host_stack' = hs
            /\ call_stack' = cs
       ELSE /\ pc' = "exec"
            /\ tx_result' = tx_result
            /\ host_stack' = [hs EXCEPT ![Len(hs)] = InsertOutcome(@, outcome)]
            /\ call_stack' = CacheCreatedAddress(cs, outcome)

\* The call and create hooks of handle_register, run by the host on a Call
\* or Create action: the previous handler makes the frame, the bridge pushes
\* the frame's slot.
HandleCallOrCreate ==
    /\ pc = "action"
    /\ next_action.type \in {"Call", "Create"}
    /\ \E db_error \in BOOLEAN :
         LET r == OldCallHandle(next_action, Len(host_stack), host, db_error)
         IN  \/ /\ r.kind = "Err"
                /\ pc' = "error"
                /\ tx_result' = EvmError
                /\ UNCHANGED <<host_stack, call_stack, host, next_id>>
             \/ /\ r.kind = "Frame"
                /\ LET ctx == riscv_context(r.frame, next_id)
                   IN  IF ctx.kind = "Panic"
                       THEN /\ pc' = "panic"
                            /\ UNCHANGED <<host_stack, call_stack, host, next_id, tx_result>>
                       ELSE /\ call_stack' = PushOnFrame(call_stack, ctx.slot)
                            /\ host_stack' = Append(host_stack, r.frame)
                            /\ next_id' = IF ctx.kind = "Some" THEN next_id + 1 ELSE next_id
                            /\ pc' = "exec"
                            /\ UNCHANGED <<host, tx_result>>
             \/ /\ r.kind = "Result"
                /\ Deliver(r.result, host_stack, call_stack, host)
                /\ UNCHANGED next_id
    /\ next_action' = NoAction
    /\ step' = NoStep
    /\ UNCHANGED <<tx, steps, contracts>>

\* The host on a Return action: it pops its frame and hands the result on.
HandleReturn ==
    /\ pc = "action"
    /\ next_action.type = "Return"
    /\ host_stack # << >>
    /\ LET frame == Top(host_stack)
           outcome == [result |-> next_action.result, output |-> next_action.output,
                       gas |-> next_action.gas, is_create |-> frame.is_create,
                       address |-> frame.target_address]
       IN  Deliver(outcome, Pop(host_stack), call_stack, FrameReturn(frame, next_action, host))
    /\ next_action' = NoAction
    /\ step' = IF Len(host_stack) = 1 THEN step ELSE NoStep
    /\ UNCHANGED <<tx, steps, next_id, contracts>>

\* The execute_frame hook on a frame whose slot is None: the previous
\* handler runs the frame, the hook pops the slot on a Return action.
NativeStep ==
    /\ pc = "exec"
    /\ steps < MaxSteps
    /\ host_stack # << >>
    /\ ~UseRiscv(call_stack)
    /\ steps' = steps + 1
    /\ IF \E overflow_checks \in BOOLEAN : DepthPanics(overflow_checks, call_stack)
       THEN /\ pc' = "panic"
            /\ step' = [handler |-> "native", kind |-> "Panic"]
            /\ UNCHANGED <<host_stack, call_stack, next_action, tx_result>>
       ELSE \E a \in NativeActions(Top(host_stack)) \cup {[type |-> "Err"]} :
              /\ step' = [handler |-> "native", depth |-> Len(host_stack),
                          bytecode |-> Top(host_stack).bytecode,
                          is_create |-> Top(host_stack).is_create,
                          input |-> Top(host_stack).input, result |-> a]
              /\ IF a.type = "Err"
                 THEN /\ pc' = "error"
                      /\ tx_result' = EvmError
                      /\ UNCHANGED <<host_stack, call_stack, next_action>>
                 ELSE /\ pc' = "action"
                      /\ next_action' = a
                      /\ call_stack' = PopOnReturn(call_stack, a)
                      /\ host_stack' = [host_stack EXCEPT ![Len(host_stack)].gas =
                                           IF IsReturn(a) THEN a.gas
                                           ELSE [@ EXCEPT !.remaining = 0]]
                      /\ UNCHANGED tx_result
    /\ UNCHANGED <<host, tx, next_id, contracts>>

\* The execute_frame hook on a frame whose slot is Some: execute_riscv, one
\* iteration of its loop per step.  pc = "exec" enters execute_riscv (the
\* frame starts or resumes), pc = "riscv" is the loop running on.  The
\* program runs (tally, memory and registers move), emu.start() returns, the
\* arm is served; when execute_riscv returns an action the hook pops the
\* slot on Return.  overflow_checks is the build profile (debug panics on
\* overflow, release wraps): either build may be the one running.
EmuStep ==
    /\ pc \in {"exec", "riscv"}
    /\ steps < MaxSteps
    /\ host_stack # << >>
    /\ UseRiscv(call_stack)
    /\ steps' = steps + 1
    /\ \E run \in {"Ecall", "Ok", "Fault"}, xr \in TrapsAt(Top(call_stack).emu.elf, pc = "exec") :
       \E answer \in Answers(xr[5]), tally \in TalliesFor(run, xr[5]),
          overflow_checks \in BOOLEAN :
         /\ TallyLe(Top(call_stack).emu.inst_counter, tally)
         /\ run # "Ecall" => (xr = Xr(0, << >>) /\ answer = "Warm")
         /\ LET slot == Top(call_stack)
                frame == Top(host_stack)
                emu0 == [elf |-> slot.emu.elf,
                         xregs |-> IF run = "Ecall" THEN xr ELSE slot.emu.xregs,
                         dram |-> ProgramWrites(slot.emu.dram),
                         inst_counter |-> tally]
                out == LoopIteration(overflow_checks, run, emu0, frame, host,
                                     slot.created_address, answer)
                stepped == SetTopEmu(call_stack, out.emu)
            IN  /\ step' = [handler |-> "riscv", entered |-> (pc = "exec"),
                            id |-> slot.id, depth |-> Len(call_stack),
                            bytecode |-> frame.bytecode, is_create |-> frame.is_create,
                            input |-> frame.input,
                            run |-> run, emu |-> emu0, emu_after |-> out.emu,
                            host |-> host, gas |-> frame.gas, gas_after |-> out.gas,
                            answer |-> answer, kind |-> out.kind, result |-> out.action]
                /\ host' = out.host
                /\ host_stack' = [host_stack EXCEPT ![Len(host_stack)].gas = out.gas]
                /\ \/ /\ out.kind = "Continue"
                      /\ pc' = "riscv"
                      /\ call_stack' = stepped
                      /\ UNCHANGED <<next_action, tx_result>>
                   \/ /\ out.kind = "Action"
                      /\ pc' = "action"
                      /\ next_action' = out.action
                      /\ call_stack' = PopOnReturn(stepped, out.action)
                      /\ UNCHANGED tx_result
                   \/ /\ out.kind = "HardError"
                      /\ pc' = "error"
                      /\ tx_result' = EvmError
                      /\ call_stack' = stepped
                      /\ UNCHANGED next_action
                   \/ /\ out.kind = "Panic"
                      /\ pc' = "panic"
                      /\ call_stack' = stepped
                      /\ UNCHANGED <<next_action, tx_result>>
    /\ UNCHANGED <<tx, next_id, contracts>>

Next == StartTx \/ HandleCallOrCreate \/ HandleReturn \/ NativeStep \/ EmuStep

Spec == Init /\ [][Next]_vars


\* ------------------------------------------- runtime and loader functions
\* The functions of the contract runtime, the loader and the syscall catalog
\* take no part in the frame machine: FnSpec applies each of them once to an
\* input drawn from a small set and records the application in `step`.
machine ==
    <<pc, host_stack, call_stack, next_action, host, tx, tx_result, steps, next_id,
      contracts>>

\* A 32-byte ABI word whose last byte is b.
Word32(b) == [i \in 1..32 |-> IF i = 32 THEN b ELSE 0]

\* The for loop of handle_call_output: return_data_copy(offset + step, step,
\* 32) for each of the `chunks` whole 32-byte chunks.
RECURSIVE CopyChunks(_, _, _)
CopyChunks(ret_data, buffer, chunks) ==
    IF chunks = 0 THEN ret_data
    ELSE LET stp == (chunks - 1) * 32
         IN  CopyChunks([k \in 1..Len(ret_data) |->
                            IF k > stp /\ k <= stp + 32 THEN buffer[k] ELSE ret_data[k]],
                        buffer, chunks - 1)

\* handle_call_output(None) on the frame's return data `buffer`: the size is
\* return_data_size(), the vector starts as zeros.
handle_call_output(buffer) ==
    LET ret_size == Len(buffer)
    IN  IF ret_size = 0 THEN << >>
        ELSE CopyChunks(Zeros(ret_size), buffer, ret_size \div 32)

\* Outputs a callee ends with: nothing, a bare selector, one word, a selector
\* and one argument, two words, a selector and two arguments.
CalleeOutputs ==
    { << >>, Selector, Word32(42), Selector \o Word32(42), Word32(1) \o Word32(42),
      Selector \o Word32(1) \o Word32(42) }

\* call_contract / staticcall_contract once the sub-call has completed with
\* `output`.
CallContract ==
    /\ step = NoStep
    /\ \E output \in CalleeOutputs, is_static \in BOOLEAN :
          step' = [handler |-> "call_contract", is_static |-> is_static,
                   output |-> output, returned |-> handle_call_output(output)]
    /\ UNCHANGED machine

\* msg_sender() / origin(): the address rebuilt from the registers the
\* syscall left: first.to_be_bytes(), second.to_be_bytes() and the first four
\* bytes of third.to_be_bytes().
msg_sender(first, second, third) ==
    << first \div HalfMod, first % HalfMod, second \div HalfMod, second % HalfMod,
       third \div HalfMod >>

\* Addresses whose 4-byte chunks are each zero, one or all ones.
Addresses == [1..5 -> {0, 1, HalfMod - 1}]

\* msg_sender() in a frame whose caller is `address`, origin() in a
\* transaction whose sender is.
MsgSender ==
    /\ step = NoStep
    /\ \E address \in Addresses, syscall \in {"Caller", "Origin"} :
          LET emu == [xregs |-> ZeroRegs]
              interp == [caller |-> address, gas |-> NewGas(0)]
              h == [tx_caller |-> address]
              out == IF syscall = "Caller" THEN SysCaller(emu, interp, h)
                     ELSE SysOrigin(emu, interp, h)
              x == out.emu.xregs
          IN  step' = [handler |-> "msg_sender", syscall |-> syscall,
                       address |-> address, xregs |-> x,
                       rebuilt |-> msg_sender(x[10], x[11], x[12])]
    /\ UNCHANGED machine

\* Strings handed to from_str: every name of the catalog, and strings that
\* are none: an identifier, a name in capitals, a name with a space, nothing.
Names == { s[3] : s \in Catalog } \cup {"SLoad", "SLOAD", "sload ", "", "selfdestruct"}

\* Syscall::try_from(value) for every 8-bit value, and the conversions back.
ConvertCode ==
    /\ step = NoStep
    /\ \E value \in 0..255 :
          LET syscall == TryFromU8(value)
              known == syscall # "UnknownOpcode"
          IN  step' = [handler |-> "try_from", value |-> value, syscall |-> syscall,
                       code |-> IF known THEN ToU8(syscall) ELSE -1,
                       name |-> IF known THEN Display(syscall) ELSE "",
                       parsed |-> IF known THEN FromStr(Display(syscall)) ELSE ""]
    /\ UNCHANGED machine

\* Syscall::from_str(input), and the conversions back.
ConvertName ==
    /\ step = NoStep
    /\ \E input \in Names :
          LET syscall == FromStr(input)
              known == syscall # "ParseError"
          IN  step' = [handler |-> "from_str", input |-> input, syscall |-> syscall,
                       name |-> IF known THEN Display(syscall) ELSE "",
                       code |-> IF known THEN ToU8(syscall) ELSE -1,
                       decoded |-> IF known THEN TryFromU8(ToU8(syscall)) ELSE ""]
    /\ UNCHANGED machine

\* The calldata region setup_from_elf reserves at the start of RAM: stands
\* for vec![0; 1024 * 1024], scaled as the machine words are.
CalldataRegion == 16

\* mem[from..to] / elf_data[from..to]: the range is in bounds of a vector of
\* length len (an overflowing end never is).
SliceOk(from, to, len) == from <= to /\ to <= len /\ to < U64Mod

\* load_sections(mem, elf, elf_data): `phdrs` is elf.program_headers as
\* goblin parsed them.  mem is [len, bytes]: the vector's length and its
\* non-zero content by absolute address.  kind is "Ok", or "Panic" when an
\* assert!, a slice or an addition fails.
RECURSIVE load_sections(_, _, _, _)
load_sections(mem, phdrs, elf_data, i) ==
    IF i > Len(phdrs) THEN [kind |-> "Ok", mem |-> mem]
    ELSE
    LET ph == phdrs[i]
    IN  IF ph.p_type # "PT_LOAD" THEN load_sections(mem, phdrs, elf_data, i + 1)
        ELSE IF ~(ph.p_vaddr >= DRAM_BASE) \/ ~(ph.p_memsz <= DRAM_SIZE)
        THEN [kind |-> "Panic", mem |-> mem]
        ELSE
        LET start_vec == ph.p_vaddr - DRAM_BASE
            start_offset == ph.p_offset
            end_vec == start_vec + ph.p_memsz
            size_to_copy == ph.p_filesz
            len == IF mem.len < end_vec THEN end_vec ELSE mem.len
        IN  IF end_vec >= U64Mod
               \/ ~SliceOk(start_vec, start_vec + size_to_copy, len)
               \/ ~SliceOk(start_offset, start_offset + size_to_copy, Len(elf_data))
            THEN [kind |-> "Panic", mem |-> mem]
            ELSE load_sections(
                     [len |-> len,
                      bytes |-> WriteMem(mem.bytes, ph.p_vaddr,
                                         SubSeq(elf_data, start_offset + 1,
                                                start_offset + size_to_copy))],
                     phdrs, elf_data, i + 1)

\* The memory image setup_from_elf hands to the emulator: Err when goblin
\* does not parse the file, a panic when the calldata does not fit the
\* region or load_sections panics.
SetupImage(parses, phdrs, elf_data, call_data) ==
    IF ~parses THEN [kind |-> "Err"]
    ELSE IF ~(Len(call_data) < CalldataRegion - 8) THEN [kind |-> "Panic"]
    ELSE LET r == load_sections([len |-> CalldataRegion, bytes |-> CalldataImage(call_data)],
                                phdrs, elf_data, 1)
         IN  IF r.kind = "Panic" THEN [kind |-> "Panic"]
             ELSE [kind |-> "Ok", mem |-> r.mem]

\* u64::from_le_bytes of the eight bytes at the start of RAM, on the
\* modelled word.
FromLeBytes8(b) == (b[1] + 256 * b[2] + 65536 * b[3] + 16777216 * (b[4] % 64)) % U64Mod

\* msg_data(): the length read from CALLDATA_ADDRESS, then that many bytes
\* from CALLDATA_ADDRESS + 8.
msg_data(bytes) ==
    LET length == FromLeBytes8(ReadMem(bytes, DRAM_BASE, 8))
    IN  ReadMem(bytes, DRAM_BASE + 8, length)

\* The file the loader is handed: the ELF magic and four bytes of content.
ElfFile == <<127, 69, 76, 70, 21, 22, 23, 24>>

ProgramHeader(type, vaddr, offset, filesz, memsz) ==
    [p_type |-> type, p_vaddr |-> vaddr, p_offset |-> offset,
     p_filesz |-> filesz, p_memsz |-> memsz]

\* Program headers: segments past the calldata region (the second overlapping
\* the first, the third beside it), at the start of RAM, below RAM, larger than RAM, file-backed past
\* the end of the file, file-backed beyond their memory size, at the top of
\* the address space, and a header that is not loadable.
Headers ==
    { ProgramHeader("PT_LOAD", DRAM_BASE + CalldataRegion, 4, 2, 4),
      ProgramHeader("PT_LOAD", DRAM_BASE + CalldataRegion + 2, 6, 2, 2),
      ProgramHeader("PT_LOAD", DRAM_BASE + CalldataRegion + 4, 6, 2, 2),
      ProgramHeader("PT_LOAD", DRAM_BASE, 4, 2, 12),
      ProgramHeader("PT_LOAD", DRAM_BASE - 1, 4, 2, 4),
      ProgramHeader("PT_LOAD", DRAM_BASE + CalldataRegion, 4, 2, DRAM_SIZE + 1),
      ProgramHeader("PT_LOAD", DRAM_BASE + CalldataRegion, 6, 4, 4),
      ProgramHeader("PT_LOAD", DRAM_BASE + 12, 4, 4, 2),
      ProgramHeader("PT_LOAD", U64Mod - 1, 4, 2, 4),
      ProgramHeader("PT_NOTE", 0, 0, 8, 8) }

HeaderLists == { << >> } \cup { <<h>> : h \in Headers } \cup { <<g, h>> : g, h \in Headers }

\* Calldata: none, a selector, the longest that fits the region, the
\* shortest that does not.
Ramp(n) == [i \in 1..n |-> i]
Calldatas == { << >>, Selector, Ramp(CalldataRegion - 9), Ramp(CalldataRegion - 8) }

\* riscv_context's match on setup_from_elf: Ok gives Some(RVEmu), Err gives
\* None, and a panic leaves riscv_context as a panic.
ContextOf(kind) ==
    CASE kind = "Ok" -> "Some"
      [] kind = "Err" -> "None"
      [] OTHER -> "Panic"

\* setup_from_elf(elf_data, call_data), and msg_data() on the image it built.
SetupFromElf ==
    /\ step = NoStep
    /\ \E parses \in BOOLEAN, phdrs \in HeaderLists, call_data \in Calldatas :
          LET out == SetupImage(parses, phdrs, ElfFile, call_data)
          IN  step' = [handler |-> "setup_from_elf", parses |-> parses, phdrs |-> phdrs,
                       call_data |-> call_data, kind |-> out.kind,
                       context |-> ContextOf(out.kind),
                       mem |-> IF out.kind = "Ok" THEN out.mem
                               ELSE [len |-> 0, bytes |-> << >>],
                       msg_data |-> IF out.kind = "Ok" THEN msg_data(out.mem.bytes)
                                    ELSE << >>]
    /\ UNCHANGED machine

\* Runtime bytecode handed to deploy_contract: RISC-V bytecode (the marker
\* 0xFF, then an ELF image) of 1, 3 and 300 bytes, and EVM bytecode.
Runtimes ==
    { <<255>>, <<255, 127, 71>>, <<255, 127>> \o [i \in 1..298 |-> i % 256], <<96, 0>>, << >> }

\* Encoded constructor arguments: none, one byte, one ABI word.
ArgSets == { << >>, <<7>>, Word32(42) }

\* deploy_contract's init code for `bytecode` and `encoded_args`, and what
\* riscv_context decodes from the create frame revm makes of it.
DeployInitCode ==
    /\ step = NoStep
    /\ \E bytecode \in Runtimes, encoded_args \in ArgSets :
          LET init_code == CraftInitCode(bytecode, encoded_args)
              frame == [bytecode |-> Padded(init_code), is_create |-> TRUE, input |-> << >>]
          IN  step' = [handler |-> "deploy_contract", bytecode |-> bytecode,
                       encoded_args |-> encoded_args, init_code |-> init_code,
                       decoded |-> ContextInput(frame)]
    /\ UNCHANGED machine

\* keccak256 as a 32-byte word: the digest's limbs, one byte of each.
Keccak32(bytes) ==
    LET limbs == Keccak(bytes)
    IN  [i \in 1..32 |-> IF i % 8 = 0 THEN limbs[i \div 8] % 256 ELSE 0]

\* Events a contract emits: the signature string and the fields in
\* declaration order, each with its #[indexed] mark and its value (one ABI
\* word).  ERC721's Transfer has three indexed fields, ERC20's two and a
\* plain one.
Field(indexed, value) == [indexed |-> indexed, value |-> value]
Events ==
    { [signature |-> <<80>>, fields |-> << >>],
      [signature |-> <<80, 40>>, fields |-> << Field(FALSE, 5) >>],
      [signature |-> <<77>>, fields |-> << Field(TRUE, 11), Field(FALSE, 5) >>],
      [signature |-> <<84, 50>>,
       fields |-> << Field(TRUE, 11), Field(TRUE, 12), Field(FALSE, 5) >>],
      [signature |-> <<84, 55>>,
       fields |-> << Field(TRUE, 11), Field(TRUE, 12), Field(TRUE, 7) >>],
      [signature |-> <<88>>,
       fields |-> << Field(FALSE, 3), Field(TRUE, 11), Field(FALSE, 4), Field(TRUE, 12) >>] }

\* #[derive(Event)]: encode_log's loop over the first n fields, giving
\* (data, topics) with topics[0] still the default word.
RECURSIVE EncodeFields(_, _)
EncodeFields(fields, n) ==
    IF n = 0 THEN [data |-> << >>, topics |-> << Zeros(32) >>]
    ELSE LET acc == EncodeFields(fields, n - 1)
             encoded == Word32(fields[n].value)
         IN  IF fields[n].indexed /\ Len(acc.topics) < 4
             THEN [acc EXCEPT !.topics = Append(@, encoded)]
             ELSE [acc EXCEPT !.data = @ \o encoded]

\* encode_log(&self) -> (data, topics)
encode_log(event) ==
    LET acc == EncodeFields(event.fields, Len(event.fields))
    IN  [acc EXCEPT !.topics[1] = Keccak32(event.signature)]

\* emit_log(data, topics): the topics written into the 96-byte buffer
\* all_topics and the registers of the log syscall.
emit_log(data, topics) ==
    LET kept == IF Len(topics) < 3 THEN Len(topics) ELSE 3
        all_topics == [i \in 1..96 |->
                          IF i <= 32 * kept THEN topics[((i - 1) \div 32) + 1][((i - 1) % 32) + 1]
                          ELSE 0]
    IN  [data |-> data, data_size |-> Len(data),
         all_topics |-> all_topics, topics_size |-> kept]

\* emit(event), and the record the Log arm makes of the syscall: the topics
\* are the chunks of 32 bytes of the range [a2, a2 + a3 * 32).
EmitEvent ==
    /\ step = NoStep
    /\ \E event \in Events :
          LET encoded == encode_log(event)
              call == emit_log(encoded.data, encoded.topics)
          IN  step' = [handler |-> "emit", event |-> event,
                       log |-> [topics |-> Chunks32(SubSeq(call.all_topics, 1,
                                                           32 * call.topics_size)),
                                data |-> SubSeq(call.data, 1, call.data_size)]]
    /\ UNCHANGED machine

\* U256::to_be_bytes of four 64-bit limbs, least significant limb first.
U256ToBe(limbs) ==
    [i \in 1..32 |->
        LET limb == limbs[4 - ((i - 1) \div 8)]
            k == 7 - ((i - 1) % 8)
        IN  IF k > 3 THEN 0 ELSE (limb \div (256 ^ k)) % 256]

\* #[storage]: the i-th field is StorageLayout::allocate(limbs of i).
allocate(i) == <<i, 0, 0, 0>>

\* The frame of the contract whose storage is accessed.
StorageFrame == [target_address |-> R55A, gas |-> NewGas(RunTxGas)]

\* The runtime's keccak256(offset, size) on `bytes` the contract holds at
\* PayloadAddr: the Keccak256 syscall, and the U256 of a0..a3.
keccak256(bytes) ==
    LET emu == [xregs |-> Xr(32, <<PayloadAddr, Len(bytes)>>),
                dram |-> WriteMem(<< >>, PayloadAddr, bytes)]
        x == SysKeccak256(FALSE, emu, StorageFrame, [storage |-> << >>]).emu.xregs
    IN  <<x[10], x[11], x[12], x[13]>>

\* A key encoding that hashes the id's bytes before the key's.
EncodeKeyIdFirst(id, key) == keccak256(U256ToBe(id) \o Word32(key))

\* Mapping::encode_key(&self, key): keccak256 of the key's ABI word followed
\* by the id's 32 big-endian bytes.
encode_key(id, key) == keccak256(Word32(key) \o U256ToBe(id))

\* The storage key an access resolves to: Slot fields use their id, a
\* Mapping indexes once, a nested Mapping indexes the inner mapping whose id
\* is the outer index's key.
StorageKey(access) ==
    CASE access.kind = "Slot" -> allocate(access.field)
      [] access.kind = "Mapping" -> encode_key(allocate(access.field), access.keys[1])
      [] access.kind = "Nested" ->
             encode_key(encode_key(allocate(access.field), access.keys[1]), access.keys[2])

\* The runtime's sstore(key, value): the SStore syscall with the key in
\* a0..a3 and the value in a4..a7; what the host's storage is afterwards.
sstore(storage, key, value) ==
    SysSStore([xregs |-> Xr(85, key \o value)], StorageFrame,
              [storage |-> storage], "Cold").host.storage

\* The runtime's sload(key): the SLoad syscall with the key in a0..a3, and
\* the U256 of a0..a3 it leaves.
sload(storage, key) ==
    LET x == SysSLoad([xregs |-> Xr(84, key)], StorageFrame,
                      [storage |-> storage], "Warm").emu.xregs
    IN  <<x[10], x[11], x[12], x[13]>>

\* The accesses of ERC20's storage: total_supply (field 0) and owner (field
\* 3) are Slots, balance_of (field 1) a Mapping, allowance_of (field 2) a
\* nested Mapping.
Accesses ==
    { [kind |-> "Slot", field |-> f, keys |-> << >>] : f \in {0, 3} }
    \cup { [kind |-> "Mapping", field |-> 1, keys |-> <<k>>] : k \in {10, 11, 12} }
    \cup { [kind |-> "Nested", field |-> 2, keys |-> <<k1, k2>>] : k1, k2 \in {10, 11, 12} }

\* write(value) through a Slot or a guard, on a storage that holds `other`
\* written by another access, then read().
StorageAccess ==
    /\ step = NoStep
    /\ \E access \in Accesses, other \in Accesses, value \in {V1, <<7, 0, 0, 0>>} :
          LET before == sstore(<< >>, StorageKey(other), <<1, 0, 0, 0>>)
              after == sstore(before, StorageKey(access), value)
          IN  step' = [handler |-> "storage", access |-> access, other |-> other,
                       value |-> value, before |-> before, storage |-> after,
                       read |-> sload(after, StorageKey(access))]
    /\ UNCHANGED machine

\* Dependencies a contract declares at most.
MaxDeps == 2

\* struct Contract { path, name }: two contracts are equal when both fields are.
ContractAt(path) == [path |-> path, name |-> path]

\* The contracts find_r55_contracts discovers, in the order it lists them,
\* and the contracts a dependency can name: the discovered ones and one that
\* is in no scanned directory.
Discovered == << ContractAt("erc20"), ContractAt("erc20x"), ContractAt("erc721") >>
Known == Discovered \o << ContractAt("missing") >>

\* The contracts of `list` at the positions of `at`, in the order of the list.
RECURSIVE Pick(_, _, _)
Pick(list, at, i) ==
    IF i > Len(list) THEN << >>
    ELSE (IF i \in at THEN << list[i] >> ELSE << >>) \o Pick(list, at, i + 1)

\* The lists of dependencies a contract can declare.
DepLists == {Pick(Known, at, 1) : at \in {d \in SUBSET DOMAIN Known : Cardinality(d) <= MaxDeps}}

\* ContractWithDeps { path, name, deps }
WithDeps(contract, deps) == [path |-> contract.path, name |-> contract.name, deps |-> deps]

\* impl From<ContractWithDeps> for Contract
IntoContract(value) == [path |-> value.path, name |-> value.name]

\* find_r55_contracts: the discovered contracts keyed by `deps.is_empty()`.
RECURSIVE GroupByDeps(_, _)
GroupByDeps(found, key) ==
    IF found = << >> THEN << >>
    ELSE (IF (Head(found).deps = << >>) = key THEN << Head(found) >> ELSE << >>)
         \o GroupByDeps(Tail(found), key)

find_r55_contracts(found) ==
    [b \in BOOLEAN |-> GroupByDeps(found, b)]

\* An all_handled that is content with one handled dependency.
AnyHandled(deps, handled) ==
    \/ deps = << >>
    \/ \E i \in DOMAIN deps : \E j \in DOMAIN handled : handled[j] = deps[i]

\* all_handled(deps, handled)
all_handled(deps, handled) ==
    \A i \in DOMAIN deps : \E j \in DOMAIN handled : handled[j] = deps[i]

\* One pass of the for loop over `pending`: a contract whose dependencies
\* are all in the queue is pushed onto it, the others stay pending.
RECURSIVE OnePass(_, _, _)
OnePass(pending, queue, next_pending) ==
    IF pending = << >> THEN [queue |-> queue, pending |-> next_pending]
    ELSE LET p == Head(pending)
         IN  IF all_handled(p.deps, queue)
             THEN OnePass(Tail(pending), Append(queue, IntoContract(p)), next_pending)
             ELSE OnePass(Tail(pending), queue, Append(next_pending, p))

\* The while loop of sort_r55_contracts, with the passes made counted.
RECURSIVE SortLoop(_, _, _)
SortLoop(pending, queue, passes) ==
    IF pending = << >> THEN [ok |-> TRUE, queue |-> queue, passes |-> passes]
    ELSE LET prev_pending == Len(pending)
             pass == OnePass(pending, queue, << >>)
         IN  IF prev_pending = Len(pass.pending)
             THEN [ok |-> FALSE, queue |-> << >>, passes |-> passes + 1]
             ELSE SortLoop(pass.pending, pass.queue, passes + 1)

\* sort_r55_contracts(map)
sort_r55_contracts(map) ==
    LET queue == [i \in DOMAIN map[TRUE] |-> IntoContract(map[TRUE][i])]
        pending == map[FALSE]
    IN  SortLoop(pending, queue, 0)

\* The contracts of a directory are found and sorted: the first `n`
\* contracts are discovered, each with one of the dependency lists.
SortContracts ==
    /\ step = NoStep
    /\ \E n \in 0..Len(Discovered) :
       \E deps \in [1..n -> DepLists] :
          LET found == [i \in 1..n |-> WithDeps(Discovered[i], deps[i])]
          IN  step' = [handler |-> "sort_r55_contracts", found |-> found,
                       result |-> sort_r55_contracts(find_r55_contracts(found))]
    /\ UNCHANGED machine

FnNext ==
    \/ CallContract \/ MsgSender \/ ConvertCode \/ ConvertName \/ SetupFromElf
    \/ DeployInitCode \/ EmitEvent \/ StorageAccess \/ SortContracts

FnSpec == Init /\ [][FnNext]_vars


\* ----------------------------------------------------- calls to the token
\* The frame machine, which a call to the token leaves alone.
frames == <<pc, host_stack, call_stack, next_action, host, tx, tx_result, steps, next_id>>

\* Calls made to the token in one behaviour.
MaxCalls == 3

\* The amounts, recipients and builds a call is made with.
Amounts == {0, 1, U256Mod - 1}
Recipients == Accounts \cup {ZeroAddress}

\* A transaction that calls `method` of the token and ends with `result`:
\* the host keeps the storage of a call that returned Ok and drops the
\* changes of one that reverted.
TokenCallWithin(limit, method, result) ==
    /\ contracts.calls < limit
    /\ contracts' = [contracts EXCEPT !.erc20 = result.state,
                                      !.calls = @ + 1,
                                      !.overflowed = @ \/ result.overflow]
    /\ step' = [handler |-> "erc20", method |-> method, ok |-> result.ok,
                error |-> result.error, arg |-> result.arg, events |-> result.events,
                sub_calls |-> [i \in DOMAIN result.sub_calls |->
                                 [amount |-> result.sub_calls[i].amount,
                                  ok |-> result.sub_calls[i].ok,
                                  error |-> result.sub_calls[i].error,
                                  arg |-> result.sub_calls[i].arg]]]
    /\ UNCHANGED frames

TokenCall(method, result) == TokenCallWithin(MaxCalls, method, result)

MintCall(caller, to, amount, checks) ==
    TokenCall("mint", mint(contracts.erc20, caller, to, amount, checks))
ApproveCall(caller, spender, amount) ==
    TokenCall("approve", approve(contracts.erc20, caller, spender, amount))
TransferCall(caller, to, amount, checks) ==
    TokenCall("transfer", transfer(contracts.erc20, caller, to, amount, checks))
TransferFromCall(caller, from, to, amount, checks) ==
    TokenCall("transfer_from",
              transfer_from(contracts.erc20, caller, from, to, amount, checks))
TransferOwnershipCall(caller, new_owner) ==
    TokenCall("transfer_ownership",
              transfer_ownership(contracts.erc20, caller, new_owner))

Mint ==
    \E caller \in Accounts, to \in Recipients, amount \in Amounts, checks \in BOOLEAN :
        MintCall(caller, to, amount, checks)
Approve ==
    \E caller \in Accounts, spender \in Recipients, amount \in Amounts :
        ApproveCall(caller, spender, amount)
Transfer ==
    \E caller \in Accounts, to \in Recipients, amount \in Amounts, checks \in BOOLEAN :
        TransferCall(caller, to, amount, checks)
TransferFrom ==
    \E caller \in Accounts, from \in Accounts, to \in Recipients,
       amount \in Amounts, checks \in BOOLEAN :
        TransferFromCall(caller, from, to, amount, checks)
TransferOwnership ==
    \E caller \in Accounts, new_owner \in Recipients :
        TransferOwnershipCall(caller, new_owner)

ERC20Next == Mint \/ Approve \/ Transfer \/ TransferFrom \/ TransferOwnership

ERC20Spec == Init /\ [][ERC20Next]_vars


\* ------------------------------------------------- calls through ERC20x
\* Calls made in one behaviour of the cross-contract scenario.
MaxXCalls == 4

\* The accounts that send transactions.
Senders == {ALICE, BOB}

\* The owner mints tokens to a sender.
MintToSender ==
    \E to \in Senders, amount \in Amounts \ {0}, checks \in BOOLEAN :
        TokenCallWithin(MaxXCalls, "mint",
                        mint(contracts.erc20, contracts.erc20.owner, to, amount, checks))

\* A sender approves the ERC20x contract.
ApproveERC20x ==
    \E caller \in Senders, amount \in Amounts :
        TokenCallWithin(MaxXCalls, "approve",
                        approve(contracts.erc20, caller, erc20x, amount))

XTransferFromCall(caller, from, amount, checks) ==
    TokenCallWithin(MaxXCalls, "x_transfer_from",
                    x_transfer_from(contracts.erc20, caller, from, amount, checks))

XTransferFrom ==
    \E caller \in Senders, from \in Accounts, amount \in Amounts, checks \in BOOLEAN :
        XTransferFromCall(caller, from, amount, checks)

ERC20xNext == MintToSender \/ ApproveERC20x \/ XTransferFrom

ERC20xSpec == Init /\ [][ERC20xNext]_vars

\* ------------------------------------------------------ calls to ERC721
\* A transaction that calls `method` of the ERC721 contract.
NftCall(method, result) ==
    /\ contracts.calls < MaxCalls
    /\ contracts' = [contracts EXCEPT !.erc721 = result.state, !.calls = @ + 1]
    /\ step' = [handler |-> "erc721", method |-> method, ok |-> result.ok,
                error |-> result.error]
    /\ UNCHANGED frames

NftMint ==
    \E caller \in Accounts, to \in Recipients, id \in Ids :
        NftCall("mint", erc721_mint(contracts.erc721, caller, to, id))

NftApprove ==
    \E caller \in Accounts, spender \in Recipients, id \in Ids :
        NftCall("approve", erc721_approve(contracts.erc721, caller, spender, id))

NftSetApprovalForAll ==
    \E caller \in Accounts, operator \in Accounts, approved \in BOOLEAN :
        NftCall("set_approval_for_all",
                set_approval_for_all(contracts.erc721, caller, operator, approved))

NftTransferFrom ==
    \E caller \in Accounts, from \in Recipients, to \in Recipients, id \in Ids :
        NftCall("transfer_from",
                erc721_transfer_from(contracts.erc721, caller, from, to, id))

NftTransferOwnership ==
    \E caller \in Accounts, new_owner \in Recipients :
        NftCall("transfer_ownership",
                erc721_transfer_ownership(contracts.erc721, caller, new_owner))

ERC721Next ==
    \/ NftMint \/ NftApprove \/ NftSetApprovalForAll \/ NftTransferFrom
    \/ NftTransferOwnership

ERC721Spec == Init /\ [][ERC721Next]_vars

\* ------------------------------------------------------------------ claims
\* Host frames that have not returned: the frame whose Return action is
\* pending has, the host has yet to pop it.
LiveFrames ==
    IF pc = "action" /\ IsReturn(next_action)
    THEN Len(host_stack) - 1 ELSE Len(host_stack)

\* C1: the bridge's call stack holds exactly one slot per live host frame; a
\* slot is pushed exactly when the call or create hook yields a frame, popped
\* exactly when an execute step returns a Return action, and the stack is
\* empty once the outermost frame has returned.
C1_OneSlotPerLiveFrame ==
    /\ [](Len(call_stack) = LiveFrames)
    /\ [](pc = "done" => call_stack = << >>)
    /\ [][ /\ (Len(call_stack') = Len(call_stack) + 1)
               <=> (pc = "action" /\ next_action.type \in {"Call", "Create"}
                    /\ Len(host_stack') = Len(host_stack) + 1)
           /\ (Len(call_stack') = Len(call_stack) - 1)
               <=> (pc \in {"exec", "riscv"} /\ pc' = "action" /\ IsReturn(next_action'))
           /\ Len(call_stack') \in {Len(call_stack) - 1, Len(call_stack),
                                     Len(call_stack) + 1} ]_vars

\* A sub-call was pushed, ran and was popped, and its caller is back on top.
C1_Witness ==
    pc = "exec" /\ Len(call_stack) = 1 /\ Len(host_stack) = 1 /\ next_id = 3 /\ steps >= 2

\* The frame's bytecode is the marker 0xFF in front of an ELF image: for a
\* call the image follows the marker, for a create it follows the 4-byte
\* size and a second marker.
MarkedElf(bytecode, is_create) ==
    /\ Len(bytecode) >= 2 /\ bytecode[1] = 255
    /\ IF is_create
       THEN Len(bytecode) >= 7 /\ bytecode[6] = 255 /\ bytecode[7] = 127
            /\ U32FromBe(SubSeq(bytecode, 2, 5)) >= 2
       ELSE bytecode[2] = 127

\* C2: a frame is run by execute_riscv exactly when its bytecode starts with
\* 0xFF and the rest was parsed as an ELF image when the frame was created;
\* every other frame, at any depth, is run by the host's previous
\* execute_frame handler, whose result is passed on unchanged.
C2_RiscvIffMarkedElf ==
    /\ step.handler = "riscv" => MarkedElf(step.bytecode, step.is_create)
    /\ step.handler = "native" =>
          /\ ~MarkedElf(step.bytecode, step.is_create)
          /\ pc = "action" => next_action = step.result
    /\ pc = "exec" =>
          (UseRiscv(call_stack)
             <=> MarkedElf(Top(host_stack).bytecode, Top(host_stack).is_create))

\* A native frame ran below a RISC-V frame that itself runs below a native
\* frame.
C2_Witness ==
    /\ step.handler = "native" /\ step.depth = 3
    /\ ~call_stack[1].some /\ call_stack[2].some

\* C3: sub-calls run depth-first: the stack changes only at its top, the
\* emulator that is stepped is the one on top, and a context below the top
\* is never touched, so that the caller resumes as it was left.
C3_OnlyTopContextSteps ==
    [][ /\ \A i \in 1..Len(call_stack) :
              (i < Len(call_stack) /\ i <= Len(call_stack')) =>
                  call_stack'[i] = call_stack[i]
        /\ Len(call_stack') >= Len(call_stack) - 1
        /\ (steps' = steps + 1 /\ UseRiscv(call_stack)) =>
              /\ Len(host_stack) = Len(call_stack)
              /\ step'.id = Top(call_stack).id
              /\ step'.depth = Len(call_stack)
              /\ Len(call_stack') = Len(call_stack) =>
                    call_stack' = [call_stack EXCEPT ![Len(call_stack)].emu =
                                       Top(call_stack').emu] ]_vars

\* The caller, suspended by its Call while a callee with its own emulator
\* ran, is stepped again.
C3_Witness ==
    /\ step.handler = "riscv" /\ step.entered /\ step.id = 1
    /\ next_id = 3 /\ steps = 3

\* The last step served an ecall of a RISC-V frame.
EcallStep == step.handler = "riscv" /\ step.run = "Ecall"

\* What that step trapped with.
StepT0 == step.emu.xregs[5]
StepA0 == step.emu.xregs[10]
StepA1 == step.emu.xregs[11]

\* The step ended execute_riscv with a terminal action of the given result.
EndsWith(result) ==
    step.kind = "Action" /\ IsReturn(step.result) /\ step.result.result = result

\* C4: execute_riscv yields a non-terminal action only at Call, StaticCall
\* or Create; every other syscall either lets the loop continue or ends the
\* invocation with a terminal Return action.
C4_YieldOnlyAtCalls ==
    step.handler = "riscv" =>
        /\ (step.kind = "Action" /\ ~IsReturn(step.result)) =>
              /\ step.run = "Ecall"
              /\ DecodeSyscall(StepT0) \in {"Call", "StaticCall", "Create"}
        /\ (EcallStep /\ DecodeSyscall(StepT0) \notin
                          {"Call", "StaticCall", "Create", "UnknownOpcode"}) =>
              \/ step.kind = "Continue"
              \/ step.kind = "Action" /\ IsReturn(step.result)

\* C5: an ecall whose t0 is none of the catalog's codes ends the frame with
\* Revert, empty output and a charge that is not negative; it is never
\* served as a known syscall, never a hard error.
C5_UnknownIdReverts ==
    (EcallStep /\ StepT0 \notin SyscallCodes) =>
        /\ EndsWith("Revert")
        /\ step.result.output = << >>
        /\ step.result.gas.remaining <= step.gas.remaining

\* C6: a fault other than an environment call ends the frame with Revert and
\* empty output, whatever the tally and the remaining gas.
C6_FaultReverts ==
    (step.handler = "riscv" /\ step.run = "Fault") =>
        EndsWith("Revert") /\ step.result.output = << >>

\* C7: a known syscall, whatever its register arguments, never ends
\* execute_riscv with a hard error or a panic.
C7_NoHardErrorNoPanic ==
    (EcallStep /\ DecodeSyscall(StepT0) # "UnknownOpcode") =>
        step.kind \in {"Continue", "Action"}

\* C8: when the host operation behind SLoad, SStore, Call or StaticCall
\* returns nothing, the frame ends with Revert: execution does not continue
\* and no sub-call is issued.
C8_HostNoneReverts ==
    (EcallStep /\ AsksHost(StepT0) /\ step.answer = "None") => EndsWith("Revert")

\* C9: Return charges the instruction-gas tally: when it fits the remaining
\* gas the frame ends with Return and the memory bytes [a0, a0 + a1) as
\* output, when it does not the frame ends with OutOfGas, empty output and
\* the gas counters as they were.
C9_ReturnChargesTally ==
    (EcallStep /\ StepT0 = 243) =>
        LET charge == TotalCost(step.emu.inst_counter) - abi_decode_cost
        IN  IF charge <= step.gas.remaining
            THEN /\ EndsWith("Return")
                 /\ step.result.output = ReadMem(step.emu.dram, StepA0, StepA1)
                 /\ step.result.gas.remaining = step.gas.remaining - charge
            ELSE /\ EndsWith("OutOfGas")
                 /\ step.result.output = << >>
                 /\ step.result.gas = step.gas

\* C10: Revert ends the frame with Revert, the memory bytes [a0, a0 + a1) as
\* output and no further charge; when the frame is the transaction's first,
\* run_tx reports an error that carries these bytes and no TxResult.
C10_RevertCarriesOutput ==
    (EcallStep /\ StepT0 = 253) =>
        LET bytes == ReadMem(step.emu.dram, StepA0, StepA1)
        IN  /\ EndsWith("Revert")
            /\ step.result.output = bytes
            /\ step.result.gas = step.gas
            /\ (pc = "done" /\ tx = "run_tx") =>
                  /\ ~tx_result.ok
                  /\ tx_result.err = "UnexpectedExecResult"
                  /\ tx_result.result.kind = "Revert"
                  /\ tx_result.result.output = bytes
                  /\ bytes = Payload =>
                        matches_custom_error_with_args(tx_result, Selector, ErrorArgs)
                            = "true"

\* The charge the syscall of the last step asks for, where it asks for one:
\* the access cost of SLoad, SStore, Call and StaticCall, the tally's gas at
\* Return.  -1 where the syscall charges nothing.
StepCharge ==
    LET sys == DecodeSyscall(StepT0)
        ans == step.answer
    IN  CASE sys = "SLoad" /\ ans # "None" -> IF ans = "Cold" THEN 2100 ELSE 100
          [] sys = "SStore" /\ ans # "None" -> IF ans = "Cold" THEN 2200 ELSE 100
          [] sys \in {"Call", "StaticCall"} ->
                 (IF ans = "None" THEN 25000 + 2600
                  ELSE IF ans = "Cold" THEN 2600 ELSE 100)
                 + (IF step.emu.xregs[13] # 0 THEN 9000 ELSE 0)
          [] sys = "Return" -> TotalCost(step.emu.inst_counter) - 9175538
          [] OTHER -> -1

\* C11: when the charge of SLoad, SStore, Call, StaticCall or Return exceeds
\* the remaining gas, the frame ends with OutOfGas and empty output, and the
\* syscall leaves nothing behind: host storage is as before it, no sub-call
\* is issued, the registers are as the program left them.
C11_OutOfGasLeavesNothing ==
    (EcallStep /\ StepCharge > step.gas.remaining) =>
        /\ EndsWith("OutOfGas")
        /\ step.result.output = << >>
        /\ pc = "action" => host.storage = step.host.storage
        /\ step.emu_after.xregs = step.emu.xregs

\* The weighted sum of a tally of the mnemonics the programs count: 25 for
\* each div, 1 for each add.
WeightedSum(tally) == 25 * tally["div"] + 1 * tally["add"]

\* C12: the gas Return charges is the weighted sum of the instruction tally
\* less 9,175,538, and that result is a non-negative amount for every tally,
\* whatever the build.
C12_ReturnGasIsSumLessConstant ==
    (EcallStep /\ StepT0 = 243) =>
        \A checks \in BOOLEAN :
            LET used == r55_gas_used(checks, step.emu.inst_counter)
            IN  /\ ~used.panic
                /\ used.val = WeightedSum(step.emu.inst_counter) - 9175538
                /\ used.val >= 0

\* C13: the gas of a tally is monotone: a tally that counts at least as many
\* of every mnemonic never yields less gas, tallies whose weighted sum is
\* below the calibration constant included.
C13_GasMonotoneInTally ==
    (EcallStep /\ StepT0 = 243) =>
        \A checks \in BOOLEAN, T2 \in Tallies :
            LET T1 == step.emu.inst_counter
            IN  TallyLe(T1, T2) =>
                    /\ ~r55_gas_used(checks, T1).panic
                    /\ ~r55_gas_used(checks, T2).panic
                    /\ r55_gas_used(checks, T2).val >= r55_gas_used(checks, T1).val

\* C14: a frame of a RISC-V contract whose gas limit is below the calibration
\* constant 9,175,538 ends, when its program asks to return, with OutOfGas
\* and empty output: never with a successful Return, never with a panic.
C14_LowGasLimitIsOutOfGas ==
    (EcallStep /\ StepT0 = 243 /\ step.gas.limit < 9175538) =>
        /\ step.kind # "Panic"
        /\ ~EndsWith("Return")
        /\ EndsWith("OutOfGas")
        /\ step.result.output = << >>

\* C15: the access costs are charged when the syscall executes: an SLoad
\* that completes has spent 2100 on a cold slot and 100 on a warm one, an
\* SStore 2200 and 100, and a Call or StaticCall that yields has spent 2600
\* on a cold account, 100 on a warm one, 25000 + 2600 when the lookup returns
\* nothing, and 9000 more when the value is non-zero.
C15_AccessCostsChargedAtSyscall ==
    (EcallStep /\ StepCharge >= 0 /\ StepCharge <= step.gas.remaining) =>
        LET sys == DecodeSyscall(StepT0)
        IN  /\ sys \in {"SLoad", "SStore"} =>
                   /\ step.kind = "Continue"
                   /\ step.gas_after.remaining = step.gas.remaining - StepCharge
            /\ (sys \in {"Call", "StaticCall"} /\ step.kind = "Action") =>
                   /\ step.result.type = "Call"
                   /\ step.result.inputs.gas_limit = step.gas.remaining - StepCharge

\* A Call with a non-zero value to an account the lookup does not know has
\* yielded, 25000 + 2600 + 9000 charged before the rest was forwarded.
C15_Witness ==
    /\ EcallStep /\ StepT0 = 241 /\ step.answer = "None"
    /\ step.emu.xregs[13] # 0
    /\ step.kind = "Action" /\ step.result.type = "Call"
    /\ step.result.inputs.gas_limit = step.gas.remaining - 36600

\* C16: a Call or StaticCall that yields forwards all the gas the frame has
\* left after the access charge: the sub-call's gas limit is that remainder,
\* the frame's own remaining gas is zero at the yield, and once the access
\* charge has fitted the charge of the forwarded amount never ends the frame
\* with OutOfGas.
C16_CallForwardsAllRemainingGas ==
    (EcallStep /\ DecodeSyscall(StepT0) \in {"Call", "StaticCall"}
               /\ step.kind = "Action") =>
        IF StepCharge <= step.gas.remaining
        THEN /\ step.result.type = "Call"
             /\ step.result.inputs.gas_limit = step.gas.remaining - StepCharge
             /\ step.gas_after.remaining = 0
             /\ GasSpent(step.gas_after) = step.gas.limit
        ELSE EndsWith("OutOfGas")

\* A StaticCall has yielded a sub-call with gas to run on, the frame itself
\* left with none.
C16_Witness ==
    /\ EcallStep /\ StepT0 = 250
    /\ step.kind = "Action" /\ step.result.type = "Call"
    /\ step.result.inputs.gas_limit > 0
    /\ step.result.inputs.gas_limit < step.gas.remaining
    /\ step.gas_after.remaining = 0

\* The key and the value a storage syscall was trapped with, of any step
\* record s.
KeyOf(s) == <<s.emu.xregs[10], s.emu.xregs[11], s.emu.xregs[12], s.emu.xregs[13]>>
ValueOf(s) == <<s.emu.xregs[14], s.emu.xregs[15], s.emu.xregs[16], s.emu.xregs[17]>>
ResultOf(s) ==
    <<s.emu_after.xregs[10], s.emu_after.xregs[11], s.emu_after.xregs[12],
      s.emu_after.xregs[13]>>

\* The step is a storage syscall of the given id that the host served and
\* the loop continued after.
StorageStep(s, t0) ==
    /\ s.handler = "riscv" /\ s.run = "Ecall" /\ s.emu.xregs[5] = t0
    /\ s.answer # "None" /\ s.kind = "Continue"

\* An SStore has put its value in the slot of the frame's target address
\* and its key, and has changed no other slot, of this or any other address.
SStoreWritesOwnSlot ==
    StorageStep(step, 85) =>
        LET slot == <<Top(host_stack).target_address, KeyOf(step)>>
        IN  /\ slot \in DOMAIN host.storage
            /\ host.storage[slot] = ValueOf(step)
            /\ \A k \in (DOMAIN host.storage \cup DOMAIN step.host.storage) \ {slot} :
                   /\ k \in DOMAIN host.storage /\ k \in DOMAIN step.host.storage
                   /\ host.storage[k] = step.host.storage[k]

\* An SLoad has put in a0..a3 what the slot of the frame's target address
\* and its key holds, zero when nothing was stored there, and has left the
\* storage alone.
SLoadReadsOwnSlot ==
    StorageStep(step, 84) =>
        LET slot == <<Top(host_stack).target_address, KeyOf(step)>>
        IN  /\ ResultOf(step) = IF slot \in DOMAIN host.storage
                                 THEN host.storage[slot] ELSE <<0, 0, 0, 0>>
            /\ host.storage = step.host.storage

\* C17: within one contract address an SLoad of key K that follows an
\* SStore of K and V writes exactly V into a0..a3; storage is keyed by the
\* frame's target address, so an SStore of one contract changes no slot of
\* another.
C17_SLoadReturnsStoredValue ==
    /\ [](SStoreWritesOwnSlot /\ SLoadReadsOwnSlot)
    /\ [][ (/\ StorageStep(step, 85) /\ StorageStep(step', 84)
             /\ step'.id = step.id /\ KeyOf(step') = KeyOf(step))
            => ResultOf(step') = ValueOf(step) ]_vars

\* An SLoad has returned the value an earlier SStore of the same contract
\* put under its key.
C17_Witness ==
    /\ StorageStep(step, 84)
    /\ <<Top(host_stack).target_address, KeyOf(step)>> \in DOMAIN host.storage
    /\ ResultOf(step) = <<11, 12, 13, 14>>

\* The 20-byte address a0..a2 hold after Caller or Origin: bytes 0..8 in
\* a0, bytes 8..16 in a1, bytes 16..20 in the upper half of a2.
AddressInRegs(xregs) ==
    << xregs[10] \div HalfMod, xregs[10] % HalfMod,
       xregs[11] \div HalfMod, xregs[11] % HalfMod,
       xregs[12] \div HalfMod >>

\* The step is the environment syscall of the given id, served.
EnvStep(t0) == EcallStep /\ StepT0 = t0 /\ step.kind = "Continue"

\* C18: the sub-call a Call or StaticCall of frame F yields has F's own
\* target address as caller and the address decoded from a0..a2 as target
\* and bytecode address; in a callee the Caller syscall returns the calling
\* contract's address, which is not the transaction's sender, so a check of
\* the caller against an owner who sent the transaction fails; and Origin
\* returns the transaction's sender at every depth.
C18_CallerIsCallingContract ==
    /\ (EcallStep /\ step.kind = "Action" /\ step.result.type = "Call") =>
           LET inputs == step.result.inputs
               addr == AddressFromLimbs(StepA0, StepA1, step.emu.xregs[12])
           IN  /\ inputs.caller = Top(host_stack).target_address
               /\ inputs.target_address = addr
               /\ inputs.bytecode_address = addr
    /\ EnvStep(51) =>
           /\ AddressInRegs(step.emu_after.xregs) = Top(host_stack).caller
           /\ step.depth >= 2 =>
                  /\ AddressInRegs(step.emu_after.xregs)
                         = host_stack[step.depth - 1].target_address
                  /\ AddressInRegs(step.emu_after.xregs) # host.tx_caller
    /\ EnvStep(50) => AddressInRegs(step.emu_after.xregs) = host.tx_caller

\* A contract called by another contract has asked for its caller and got
\* the calling contract's address: not the caller of that contract, not the
\* transaction's sender.
C18_Witness ==
    /\ EnvStep(51) /\ step.depth = 2
    /\ call_stack[1].some
    /\ AddressInRegs(step.emu_after.xregs) = host_stack[1].target_address
    /\ AddressInRegs(step.emu_after.xregs) # host_stack[1].caller
    /\ host_stack[1].caller = host.tx_caller

\* The return data of the last sub-call as the stepping frame holds it.
StepBuffer == Top(host_stack).return_data_buffer

\* C19: ReturnDataSize writes the length of the last sub-call's output into
\* a0; ReturnDataCopy of a source range inside that output writes exactly
\* those bytes into emulator memory at [dest, dest + size) and changes no
\* other memory byte and no register.
C19_ReturnDataCopyWritesSlice ==
    /\ (EcallStep /\ StepT0 = 61) =>
           /\ step.kind = "Continue"
           /\ step.emu_after.xregs[10] = Len(StepBuffer)
    /\ (EcallStep /\ StepT0 = 62 /\ step.kind \in {"Continue", "HardError", "Panic"}
                  /\ StepA1 + step.emu.xregs[12] <= Len(StepBuffer)) =>
           LET dest == StepA0
               offset == StepA1
               size == step.emu.xregs[12]
           IN  /\ step.kind = "Continue"
               /\ ReadMem(step.emu_after.dram, dest, size)
                      = SubSeq(StepBuffer, offset + 1, offset + size)
               /\ \A a \in (DOMAIN step.emu.dram \cup DOMAIN step.emu_after.dram)
                             \ (dest..(dest + size - 1)) :
                      Byte(step.emu_after.dram, a) = Byte(step.emu.dram, a)
               /\ step.emu_after.xregs = step.emu.xregs

\* A RISC-V frame is about to run again after the sub-call its Call syscall
\* yielded has completed.
ResumedAfterCall ==
    /\ pc = "exec" /\ host_stack # << >> /\ UseRiscv(call_stack)
    /\ Top(call_stack).emu.xregs[5] = 241

\* C20: when a contract issues Call with a return buffer of size N reserved
\* at a6 and the callee returns N bytes X, the contract's emulator memory at
\* the reserved buffer equals X once it resumes, before any ReturnDataCopy.
C20_ReturnBufferHoldsOutput ==
    (ResumedAfterCall
        /\ Len(Top(host_stack).return_data_buffer) = Top(call_stack).emu.xregs[17]) =>
        ReadMem(Top(call_stack).emu.dram, Top(call_stack).emu.xregs[16],
                Top(call_stack).emu.xregs[17])
            = Top(host_stack).return_data_buffer

\* C21: call_contract and staticcall_contract return the callee's output
\* completely: the returned bytes have the output's length and equal it byte
\* for byte, whatever the length.
C21_CallReturnsWholeOutput ==
    step.handler = "call_contract" =>
        /\ Len(step.returned) = Len(step.output)
        /\ step.returned = step.output

\* C22: address packing across a0..a2 is exact: the address the runtime
\* rebuilds from the registers Caller or Origin wrote equals the address the
\* bridge packed, a0 carrying bytes 0..8, a1 bytes 8..16 and a2 bytes 16..20.
C22_AddressPackingExact ==
    step.handler = "msg_sender" =>
        LET A == step.address
        IN  /\ step.rebuilt = A
            /\ step.xregs[10] = A[1] * HalfMod + A[2]
            /\ step.xregs[11] = A[3] * HalfMod + A[4]
            /\ step.xregs[12] \div HalfMod = A[5]

\* An address with no zero chunk, and chunks that differ, has come back from
\* Origin as it was packed.
C22_Witness ==
    /\ step.handler = "msg_sender" /\ step.syscall = "Origin"
    /\ step.address = <<1, HalfMod - 1, 1, HalfMod - 1, HalfMod - 1>>
    /\ step.rebuilt = step.address

\* The numeric code the specification fixes for each of the 21 operations.
FixedCodes ==
    [Keccak256 |-> 32, Origin |-> 50, Caller |-> 51, CallValue |-> 52, GasPrice |-> 58,
     ReturnDataSize |-> 61, ReturnDataCopy |-> 62, Timestamp |-> 66, Number |-> 67,
     GasLimit |-> 69, ChainId |-> 70, BaseFee |-> 72, SLoad |-> 84, SStore |-> 85,
     Create |-> 240, Call |-> 241, StaticCall |-> 250, Return |-> 243, Revert |-> 253,
     Log |-> 160, ReturnCreateAddress |-> 1]

\* C23: the syscall catalog is a bijection in both encodings: the 21
\* operations have distinct codes, the ones the specification fixes, and
\* distinct names; a code or a name converted to a Syscall converts back to
\* itself; every other 8-bit value is UnknownOpcode and every other string
\* ParseError.
C23_CatalogIsBijection ==
    /\ Cardinality(DOMAIN FixedCodes) = 21
    /\ step.handler = "try_from" =>
           IF \E op \in DOMAIN FixedCodes : FixedCodes[op] = step.value
           THEN /\ step.syscall \in DOMAIN FixedCodes
                /\ FixedCodes[step.syscall] = step.value
                /\ step.code = step.value
                /\ step.parsed = step.syscall
                /\ \A s \in Catalog : s[3] = step.name => s[1] = step.value
           ELSE step.syscall = "UnknownOpcode"
    /\ step.handler = "from_str" =>
           IF step.syscall # "ParseError"
           THEN /\ step.syscall \in DOMAIN FixedCodes
                /\ step.name = step.input
                /\ step.code = FixedCodes[step.syscall]
                /\ step.decoded = step.syscall
           ELSE \A s \in Catalog : s[3] # step.input

\* The code 0x01 has converted to ReturnCreateAddress and back, by number
\* and by name.
C23_Witness ==
    /\ step.handler = "try_from" /\ step.value = 1
    /\ step.syscall = "ReturnCreateAddress"
    /\ step.code = 1 /\ step.name = "returncreateaddress"
    /\ step.parsed = "ReturnCreateAddress"

\* The loadable program headers of the image the loader was handed.
Loadable == { i \in 1..Len(step.phdrs) : step.phdrs[i].p_type = "PT_LOAD" }

WellFormedImage ==
    /\ step.parses
    /\ \A i \in Loadable :
          LET ph == step.phdrs[i]
          IN  /\ ph.p_vaddr >= DRAM_BASE + CalldataRegion
              /\ ph.p_memsz <= DRAM_SIZE
              /\ ph.p_vaddr + ph.p_memsz < U64Mod
              /\ ph.p_filesz <= ph.p_memsz
              /\ ph.p_offset + ph.p_filesz <= Len(ElfFile)
    /\ \A i, j \in Loadable : i # j =>
          \/ step.phdrs[i].p_vaddr + step.phdrs[i].p_memsz <= step.phdrs[j].p_vaddr
          \/ step.phdrs[j].p_vaddr + step.phdrs[j].p_memsz <= step.phdrs[i].p_vaddr

LengthPrefixed(D) ==
    <<Len(D) % 256, (Len(D) \div 256) % 256, 0, 0, 0, 0, 0, 0>> \o D

\* C25: for any ELF that loads and any calldata D shorter than the reserved
\* region less 8 bytes, the memory image starts with the 8-byte little-endian
\* length of D followed by D, and msg_data() reads back exactly D.
C25_CalldataRoundTrip ==
    (/\ step.handler = "setup_from_elf" /\ step.kind = "Ok"
     /\ Len(step.call_data) < CalldataRegion - 8) =>
        /\ ReadMem(step.mem.bytes, DRAM_BASE, 8 + Len(step.call_data))
               = LengthPrefixed(step.call_data)
        /\ step.msg_data = step.call_data

\* C25, amended: the same when no loadable segment has file-backed bytes
\* inside the first 8 + len(D) bytes of the image.
C25_CalldataRoundTripClearOfSegments ==
    (/\ step.handler = "setup_from_elf" /\ step.kind = "Ok"
     /\ Len(step.call_data) < CalldataRegion - 8
     /\ \A i \in Loadable :
           \/ step.phdrs[i].p_filesz = 0
           \/ step.phdrs[i].p_vaddr >= DRAM_BASE + 8 + Len(step.call_data)) =>
        /\ ReadMem(step.mem.bytes, DRAM_BASE, 8 + Len(step.call_data))
               = LengthPrefixed(step.call_data)
        /\ step.msg_data = step.call_data

\* A selector has been read back from an image with a segment loaded right
\* behind it.
C25_Witness ==
    /\ step.handler = "setup_from_elf" /\ step.kind = "Ok"
    /\ step.call_data = Selector
    /\ \E i \in Loadable : step.phdrs[i].p_vaddr = DRAM_BASE + 12
    /\ step.msg_data = Selector
    /\ ReadMem(step.mem.bytes, DRAM_BASE, 8) = <<4, 0, 0, 0, 0, 0, 0, 0>>

\* The image or the calldata is one the loader is to refuse: a loadable
\* segment below RAM, larger than RAM, file-backed beyond its memory size or
\* beyond the file, or calldata too long for the region.
MalformedImage ==
    \/ \E i \in Loadable :
          LET ph == step.phdrs[i]
          IN  \/ ph.p_vaddr < DRAM_BASE
              \/ ph.p_memsz > DRAM_SIZE
              \/ ph.p_filesz > ph.p_memsz
              \/ ph.p_offset + ph.p_filesz > Len(ElfFile)
    \/ Len(step.call_data) >= CalldataRegion - 8

\* C26: setup_from_elf reports every image error as an Err returned to its
\* caller, never as a panic, and a frame whose image is malformed gets no
\* RISC-V context.
C26_ImageErrorsAreErr ==
    step.handler = "setup_from_elf" =>
        /\ step.kind # "Panic"
        /\ MalformedImage => (step.kind = "Err" /\ step.context = "None")

\* C27: for runtime bytecode R that begins with 0xFF and constructor
\* arguments A, deploy_contract's init code is 0xFF, the 4-byte big-endian
\* length of R, R, then A, and the decoder of the create frame recovers R's
\* ELF image as code and A as calldata; bytecode that does not begin with
\* 0xFF is the init code unchanged.
C27_InitCodeRoundTrip ==
    step.handler = "deploy_contract" =>
        LET R == step.bytecode
            A == step.encoded_args
        IN  IF Len(R) > 0 /\ R[1] = 255
            THEN /\ step.init_code
                       = <<255, 0, 0, Len(R) \div 256, Len(R) % 256>> \o R \o A
                 /\ step.decoded.kind = "Parsed"
                 /\ step.decoded.code = Tail(R)
                 /\ step.decoded.calldata = A
            ELSE step.init_code = R

\* A runtime of 300 bytes, whose length takes two bytes, has come back from
\* the create frame with its one ABI word of arguments.
C27_Witness ==
    /\ step.handler = "deploy_contract"
    /\ Len(step.bytecode) = 300 /\ Len(step.encoded_args) = 32
    /\ SubSeq(step.init_code, 1, 5) = <<255, 0, 0, 1, 44>>
    /\ step.decoded.kind = "Parsed"
    /\ step.decoded.code = Tail(step.bytecode)
    /\ step.decoded.calldata = step.encoded_args

\* An init code that begins with 0xFF and is not a well-formed RISC-V init
\* code, as the create frame holds it: fewer than 4 length bytes after the
\* marker, a declared code size of 0 or larger than the bytes present, or
\* fewer than 34 bytes after the length field.
MalformedInitCode(init_code) ==
    LET bytecode == Padded(init_code)
        after_length == Len(bytecode) - 5
    IN  /\ Len(init_code) > 0 /\ init_code[1] = 255
        /\ \/ Len(init_code) < 5
           \/ U32FromBe(SubSeq(bytecode, 2, 5)) = 0
           \/ U32FromBe(SubSeq(bytecode, 2, 5)) > after_length
           \/ after_length < 34

\* C28: a create frame whose init code begins with 0xFF but is not a
\* well-formed RISC-V init code gets None pushed for it and takes the native
\* path; making the frame never panics.
C28_MalformedCreateGetsNone ==
    [][ ( /\ pc = "action"
          /\ next_action.type = "Create"
          /\ MalformedInitCode(next_action.inputs.init_code) )
        => /\ pc' # "panic"
           /\ Len(host_stack') = Len(host_stack) + 1 => ~UseRiscv(call_stack') ]_vars

\* The range [offset, offset + size) lies in emulator memory.
Readable(offset, size) ==
    size = 0 \/ (offset + size < U64Mod /\ GetDramSliceOk(offset, offset + size))

\* An address as its 20 bytes, most significant first.
TwentyBytes(addr) ==
    [i \in 1..20 |->
        LET chunk == addr[(i + 3) \div 4]
        IN  CASE i % 4 = 0 -> chunk % 256
              [] i % 4 = 3 -> chunk \div 256
              [] OTHER -> 0]

\* The step is the Create syscall of a range that lies in emulator memory.
CreateStep == EcallStep /\ StepT0 = 240 /\ Readable(StepA1, step.emu.xregs[12])

\* The step is the ReturnCreateAddress syscall of a destination in memory.
ReturnCreateAddressStep == EcallStep /\ StepT0 = 1 /\ Readable(StepA0, 20)

\* The Create syscall yields a CREATE action with the value of a0 and the
\* memory bytes [a1, a1 + a2) as init code, and the frame waits for it.
CreateYieldsAction ==
    CreateStep =>
        /\ step.kind = "Action"
        /\ step.result.type = "Create"
        /\ step.result.inputs.value = StepA0
        /\ step.result.inputs.init_code
               = ReadMem(step.emu.dram, StepA1, step.emu.xregs[12])
        /\ pc = "action" /\ next_action = step.result
        /\ Len(call_stack) = step.depth /\ UseRiscv(call_stack)

\* ReturnCreateAddress writes the 20 bytes of the address its context holds
\* at a0 and the loop runs on.
ReturnCreateAddressWrites ==
    ReturnCreateAddressStep =>
        /\ step.kind = "Continue"
        /\ UseRiscv(call_stack)
        /\ ReadMem(step.emu_after.dram, StepA0, 20)
               = TwentyBytes(Top(call_stack).created_address)

\* A context below the top of the stack is not run: its emulator is as it
\* was for as long as a frame is above it.
SuspendedBelowTop ==
    \A i \in 1..(Len(call_stack) - 1) :
        (i <= Len(call_stack') /\ call_stack[i].some) =>
            /\ call_stack'[i].some
            /\ call_stack'[i].emu = call_stack[i].emu

\* When a create frame completes above a RISC-V frame (the hook has popped
\* the create frame's slot with its Return action), that frame is the
\* one that runs next and its context holds the new contract's address;
\* the frame's own steps leave the address its context holds in place.
CreationCompletes ==
    /\ ( /\ pc = "action" /\ next_action.type = "Return"
          /\ Len(host_stack) > 1 /\ Top(host_stack).is_create
          /\ Len(call_stack) = Len(host_stack) - 1
          /\ UseRiscv(call_stack) )
        => /\ pc' = "exec"
           /\ host_stack' # << >> /\ Len(call_stack') = Len(host_stack')
           /\ UseRiscv(call_stack')
           /\ Top(call_stack').created_address = Top(host_stack).target_address
    /\ ( /\ pc # "action"
          /\ Len(call_stack') = Len(call_stack)
          /\ UseRiscv(call_stack) /\ UseRiscv(call_stack') )
        => Top(call_stack').created_address = Top(call_stack).created_address

LogStep == EcallStep /\ StepT0 = 160

\* C30: each Log syscall produces exactly one host log record, whose
\* address is the current frame's target address, whose topics are the a3
\* consecutive 32-byte words starting at memory offset a2, in that order,
\* and whose data is the memory bytes [a0, a0 + a1); the syscall changes no
\* register and does not end the frame.
C30_LogEmitsOneRecord ==
    LogStep =>
        /\ step.kind = "Continue"
        /\ step.emu_after.xregs = step.emu.xregs
        /\ Len(host.logs) = Len(step.host.logs) + 1
        /\ SubSeq(host.logs, 1, Len(step.host.logs)) = step.host.logs
        /\ LET record == host.logs[Len(host.logs)]
           IN  /\ record.address = Top(host_stack).target_address
               /\ Len(record.topics) = step.emu.xregs[13]
               /\ \A i \in 1..Len(record.topics) :
                      record.topics[i]
                          = ReadMem(step.emu.dram, step.emu.xregs[12] + 32 * (i - 1), 32)
               /\ Len(record.data) = StepA1
               /\ record.data = ReadMem(step.emu.dram, StepA0, StepA1)

\* The fields of an event that are indexed, or are not, in declaration
\* order, as ABI words.
RECURSIVE FieldWords(_, _, _)
FieldWords(fields, indexed, n) ==
    IF n = 0 THEN << >>
    ELSE IF fields[n].indexed = indexed
         THEN Append(FieldWords(fields, indexed, n - 1),
                     [i \in 1..32 |-> IF i = 32 THEN fields[n].value ELSE 0])
         ELSE FieldWords(fields, indexed, n - 1)

\* The concatenation of a sequence of words.
RECURSIVE Concat(_)
Concat(words) == IF words = << >> THEN << >> ELSE Head(words) \o Concat(Tail(words))

\* The step emitted an event with at most three indexed fields.
EmitStep ==
    /\ step.handler = "emit"
    /\ Len(FieldWords(step.event.fields, TRUE, Len(step.event.fields))) <= 3

\* C31: emitting an event with k indexed fields, 0 <= k <= 3, produces a
\* host log whose topics are the event-signature hash followed by the ABI
\* encodings of all k indexed fields in declaration order and whose data is
\* the concatenated ABI encodings of the other fields.
C31_EventFieldsInLog ==
    EmitStep =>
        LET fields == step.event.fields
        IN  /\ step.log.topics
                   = << Keccak32(step.event.signature) >>
                        \o FieldWords(fields, TRUE, Len(fields))
            /\ step.log.data = Concat(FieldWords(fields, FALSE, Len(fields)))

\* The 32 big-endian bytes of a 256-bit number given by its limbs.
BigEndian32(limbs) ==
    [i \in 1..32 |->
        LET limb == limbs[4 - ((i - 1) \div 8)]
            k == 7 - ((i - 1) % 8)
        IN  IF k > 3 THEN 0 ELSE (limb \div (256 ^ k)) % 256]

\* keccak256(abi_encode(k) ++ m), m as 32 big-endian bytes.
MappingSlot(k, m) ==
    Keccak([i \in 1..32 |-> IF i = 32 THEN k ELSE 0] \o BigEndian32(m))

\* The slot the layout gives the step's access.
LayoutSlot ==
    LET a == step.access
        id == <<a.field, 0, 0, 0>>
    IN  CASE a.kind = "Slot" -> id
          [] a.kind = "Mapping" -> MappingSlot(a.keys[1], id)
          [] a.kind = "Nested" -> MappingSlot(a.keys[2], MappingSlot(a.keys[1], id))

Token == contracts.erc20
TokenAfter == contracts'.erc20

\* The call reverted with `error` carrying `arg`: nothing is written and no
\* event is emitted.
RevertsWith(error, arg) ==
    /\ ~step'.ok /\ step'.error = error /\ step'.arg = arg
    /\ TokenAfter = Token
    /\ step'.events = << >>

\* What C33 says of a call of mint(to, amount) by caller.
MintAsClaimed(caller, to, amount) ==
    IF caller # Token.owner THEN RevertsWith("OnlyOwner", 0)
    ELSE IF amount = 0 THEN RevertsWith("ZeroAmount", 0)
    ELSE IF to = ZeroAddress THEN RevertsWith("ZeroAddress", 0)
    ELSE /\ step'.ok
         /\ TokenAfter.balance_of[to] = Token.balance_of[to] + amount
         /\ TokenAfter.total_supply = Token.total_supply + amount
         /\ \A a \in Accounts \ {to} : TokenAfter.balance_of[a] = Token.balance_of[a]
         /\ TokenAfter.allowance_of = Token.allowance_of
         /\ TokenAfter.owner = Token.owner

\* C33: mint(to, amount) succeeds if and only if the caller is the owner,
\* amount is non-zero and to is not the zero address; on success
\* balance_of[to] and total_supply each grow by exactly amount and nothing
\* else changes; otherwise it reverts with the error of the first failing
\* check in the order OnlyOwner, ZeroAmount, ZeroAddress, with no storage
\* write and no event.
C33_MintChecksAndEffect ==
    [][ \A caller \in Accounts, to \in Recipients, amount \in Amounts,
           checks \in BOOLEAN :
            MintCall(caller, to, amount, checks)
                => MintAsClaimed(caller, to, amount) ]_vars

\* The balances and allowances of the token after the call are those before
\* it except at the given accounts and (owner, spender) pairs, and
\* total_supply and owner are unchanged.
OnlyChanges(accounts, pairs) ==
    /\ \A a \in Accounts \ accounts : TokenAfter.balance_of[a] = Token.balance_of[a]
    /\ \A a \in Accounts, b \in Accounts :
          <<a, b>> \notin pairs => TokenAfter.allowance_of[a][b] = Token.allowance_of[a][b]
    /\ TokenAfter.total_supply = Token.total_supply
    /\ TokenAfter.owner = Token.owner

\* `amount` moved from the balance of `from` to that of `to`.
Moves(from, to, amount) ==
    /\ TokenAfter.balance_of[from] = Token.balance_of[from] - amount
    /\ TokenAfter.balance_of[to] = Token.balance_of[to] + amount

\* C34: a successful transfer(to, amount) lowers the sender's balance and
\* raises to's balance by exactly amount; a successful
\* transfer_from(from, to, amount) does the same for from and to and lowers
\* allowance_of[from][caller] by exactly amount; approve(spender, amount)
\* sets allowance_of[caller][spender] to exactly amount; no other balance or
\* allowance, nor total_supply or owner, changes.
C34_TransferApproveFrame ==
    [][ /\ \A caller \in Accounts, to \in Recipients, amount \in Amounts,
             checks \in BOOLEAN :
              TransferCall(caller, to, amount, checks) /\ step'.ok
                  => Moves(caller, to, amount) /\ OnlyChanges({caller, to}, {})
        /\ \A caller \in Accounts, from \in Accounts, to \in Recipients,
             amount \in Amounts, checks \in BOOLEAN :
              TransferFromCall(caller, from, to, amount, checks) /\ step'.ok
                  => /\ Moves(from, to, amount)
                     /\ TokenAfter.allowance_of[from][caller]
                            = Token.allowance_of[from][caller] - amount
                     /\ OnlyChanges({from, to}, {<<from, caller>>})
        /\ \A caller \in Accounts, spender \in Recipients, amount \in Amounts :
              ApproveCall(caller, spender, amount) /\ step'.ok
                  => /\ TokenAfter.allowance_of[caller][spender] = amount
                     /\ OnlyChanges({}, {<<caller, spender>>}) ]_vars

\* The result of a call that reverted with `error` carrying `arg` and left
\* the token as it was.
FailsWith(result, error, arg) ==
    /\ ~result.ok /\ result.error = error /\ result.arg = arg
    /\ result.state = Token

\* What C35 says of transfer_from(from, to, amount) called by `caller` on the
\* present token.
TransferFromErrors(caller, from, to, amount, checks) ==
    LET result == transfer_from(Token, caller, from, to, amount, checks)
        allowance == Token.allowance_of[from][caller]
        from_balance == Token.balance_of[from]
    IN  /\ to = ZeroAddress => FailsWith(result, "ZeroAddress", 0)
        /\ to # ZeroAddress /\ amount = 0 => FailsWith(result, "ZeroAmount", 0)
        /\ to # ZeroAddress /\ amount # 0 /\ from = to
              => FailsWith(result, "SelfTransfer", 0)
        /\ to # ZeroAddress /\ amount # 0 /\ from # to /\ allowance < amount
              => FailsWith(result, "InsufficientAllowance", allowance)
        /\ to # ZeroAddress /\ amount # 0 /\ from # to /\ allowance >= amount
              /\ from_balance < amount
              => FailsWith(result, "InsufficientBalance", from_balance)
        /\ ~result.ok => /\ result.state.balance_of = Token.balance_of
                         /\ result.state.allowance_of = Token.allowance_of

\* What C35 says of transfer(to, amount) called by `caller`.
TransferErrors(caller, to, amount, checks) ==
    LET result == transfer(Token, caller, to, amount, checks)
    IN  /\ to # ZeroAddress /\ amount # 0 /\ caller # to
              /\ Token.balance_of[caller] < amount
              => FailsWith(result, "InsufficientBalance", Token.balance_of[caller])
        /\ ~result.ok => /\ result.state.balance_of = Token.balance_of
                         /\ result.state.allowance_of = Token.allowance_of

\* C35: in every state the token reaches, transfer_from reverts with the
\* first failing check in the order ZeroAddress, ZeroAmount, SelfTransfer,
\* InsufficientAllowance (carrying the allowance), InsufficientBalance
\* (carrying from's balance), transfer reverts with InsufficientBalance
\* carrying the sender's balance, and a reverted call changes no balance and
\* no allowance; the call last made changed the token only if it returned Ok.
C35_TransferFromErrorOrder ==
    /\ \A caller \in Accounts, to \in Recipients, amount \in Amounts, checks \in BOOLEAN :
          /\ TransferErrors(caller, to, amount, checks)
          /\ \A from \in Accounts : TransferFromErrors(caller, from, to, amount, checks)
    /\ step.handler = "erc20" /\ step.method \in {"transfer", "transfer_from"}
          => step.error \in {"none", "Panic", "ZeroAddress", "ZeroAmount", "SelfTransfer",
                             "InsufficientAllowance", "InsufficientBalance"}

\* A transfer_from for more than the allowance of 1 has reverted with
\* InsufficientAllowance(1) while no balance exceeds 1, so that the balance
\* of from was too low as well.
C35_Witness ==
    /\ step.handler = "erc20" /\ step.method = "transfer_from"
    /\ ~step.ok /\ step.error = "InsufficientAllowance" /\ step.arg = 1
    /\ \A a \in Accounts : Token.balance_of[a] <= 1

\* The sum of balance_of over the accounts of a set.
RECURSIVE SumOfBalances(_)
SumOfBalances(accounts) ==
    IF accounts = {} THEN 0
    ELSE LET a == CHOOSE x \in accounts : TRUE
         IN  Token.balance_of[a] + SumOfBalances(accounts \ {a})

\* C39: after any sequence of mint, approve, transfer, transfer_from and
\* transfer_ownership calls, successful or reverted, by any callers,
\* total_supply equals the sum of balance_of over all addresses, as long as
\* no 256-bit addition has wrapped.
C39_SupplyConservation ==
    ~contracts.overflowed => Token.total_supply = SumOfBalances(Accounts)

\* Tokens were minted and then moved by a transfer_from, with no overflow.
C39_Witness ==
    /\ step.handler = "erc20" /\ step.method = "transfer_from" /\ step.ok
    /\ ~contracts.overflowed
    /\ Token.total_supply > 0

Nft == contracts.erc721

\* The caller may move token id of from: it is from, an operator approved
\* by from for all tokens, or the address approved for id.
MayMove(caller, from, id) ==
    \/ caller = from
    \/ Nft.is_operator[from][caller]
    \/ caller = Nft.approval_of[id]

\* balance_of after one is taken from `from` and then one is given to `to`.
BalancesAfterMove(from, to) ==
    LET debited == [Nft.balance_of EXCEPT ![from] = @ - 1]
    IN  [debited EXCEPT ![to] = @ + 1]

\* The checks of transfer_from and what a call that passes none of them does.
TransferFromChecks(caller, from, to, id) ==
    LET result == erc721_transfer_from(Nft, caller, from, to, id)
    IN  /\ result.ok <=> /\ from = Nft.owner_of[id]
                         /\ to # ZeroAddress
                         /\ MayMove(caller, from, id)
        /\ ~result.ok => result.state = Nft
        /\ from # Nft.owner_of[id] => result.error = "WrongFrom"
        /\ from = Nft.owner_of[id] /\ to = ZeroAddress => result.error = "ZeroAddress"
        /\ from = Nft.owner_of[id] /\ to # ZeroAddress /\ ~MayMove(caller, from, id)
              => result.error = "Unauthorized"
        /\ result.ok => /\ result.state.owner_of[id] = to
                        /\ result.state.approval_of[id] = ZeroAddress

\* Each account's balance is the number of tokens it owns, and the supply
\* the number of tokens that have an owner.
BalancesCountTokens ==
    /\ \A a \in Accounts : Nft.balance_of[a] = Cardinality({id \in Ids : Nft.owner_of[id] = a})
    /\ Nft.total_supply = Cardinality({id \in Ids : Nft.owner_of[id] # ZeroAddress})

\* C36 as the code has it: transfer_from succeeds exactly when from owns id,
\* to is not the zero address and the caller is from, an operator of from or
\* the address approved for id; otherwise it reverts with WrongFrom,
\* ZeroAddress or Unauthorized, checked in that order, and changes nothing.
\* On success owner_of[id] is to, the approval for id is cleared, and
\* balance_of has one taken from from and then one given to to (no change
\* when from is to).  A mint of an id that has an owner reverts and changes
\* nothing, with ZeroAddress when to is zero, else OnlyOwner when the caller
\* is not the contract owner, else AlreadyMinted; every balance is the number
\* of tokens the account owns.
C36_TransferFromChecksAmended ==
    /\ \A caller \in Accounts, from \in Recipients, to \in Recipients, id \in Ids :
          /\ TransferFromChecks(caller, from, to, id)
          /\ LET result == erc721_transfer_from(Nft, caller, from, to, id)
             IN  result.ok => result.state.balance_of = BalancesAfterMove(from, to)
    /\ \A caller \in Accounts, to \in Recipients, id \in Ids :
          LET result == erc721_mint(Nft, caller, to, id)
          IN  Nft.owner_of[id] # ZeroAddress
                  => /\ ~result.ok /\ result.state = Nft
                     /\ result.error = IF to = ZeroAddress THEN "ZeroAddress"
                                        ELSE IF caller # Nft.owner THEN "OnlyOwner"
                                        ELSE "AlreadyMinted"
    /\ BalancesCountTokens

\* A token was minted and then moved to another account by a transfer_from.
C36_Witness ==
    /\ step.handler = "erc721" /\ step.method = "transfer_from" /\ step.ok
    /\ \E id \in Ids : Nft.owner_of[id] \notin {ZeroAddress, Nft.owner}

\* C36 as stated: on success balance_of[from] falls by one and balance_of[to]
\* rises by one, and a mint of an id that already has an owner reverts with
\* AlreadyMinted.
C36_TransferFromChecks ==
    /\ \A caller \in Accounts, from \in Recipients, to \in Recipients, id \in Ids :
          /\ TransferFromChecks(caller, from, to, id)
          /\ LET result == erc721_transfer_from(Nft, caller, from, to, id)
             IN  result.ok => /\ result.state.balance_of[from] = Nft.balance_of[from] - 1
                              /\ result.state.balance_of[to] = Nft.balance_of[to] + 1
    /\ \A caller \in Accounts, to \in Recipients, id \in Ids :
          LET result == erc721_mint(Nft, caller, to, id)
          IN  Nft.owner_of[id] # ZeroAddress
                  => /\ ~result.ok /\ result.state = Nft
                     /\ result.error = "AlreadyMinted"
    /\ BalancesCountTokens

\* The step sorted a set of contracts.
SortStep == step.handler = "sort_r55_contracts"

\* The input contracts all of whose dependencies are in `resolved`.
Ready(found, resolved) ==
    {IntoContract(found[i]) : i \in {j \in DOMAIN found :
        \A k \in DOMAIN found[j].deps : found[j].deps[k] \in resolved}}

\* The contracts that can be compiled at all: the least set that holds every
\* contract whose dependencies it holds.
RECURSIVE Resolvable(_, _)
Resolvable(found, resolved) ==
    IF Ready(found, resolved) \subseteq resolved THEN resolved
    ELSE Resolvable(found, resolved \cup Ready(found, resolved))

\* The position of a contract in an order, 0 when it is not in it.
PositionIn(order, contract) ==
    IF \E i \in DOMAIN order : order[i] = contract
    THEN CHOOSE i \in DOMAIN order : order[i] = contract
    ELSE 0

\* C38: sort_r55_contracts ends after at most one pass per pending contract;
\* it returns either an order that holds each input contract exactly once,
\* every contract after all of its dependencies and the contracts without
\* dependencies first, or CyclicDependency; it returns the error exactly
\* when some contract can never be added, because of a cycle or of a
\* dependency that is not among the discovered contracts.
C38_SortOrdersOrFails ==
    SortStep =>
        LET found == step.found
            result == step.result
            order == result.queue
            inputs == {IntoContract(found[i]) : i \in DOMAIN found}
            pending == {i \in DOMAIN found : found[i].deps # << >>}
        IN  /\ result.passes <= Cardinality(pending)
            /\ result.ok <=> Resolvable(found, {}) = inputs
            /\ result.ok =>
                  /\ Len(order) = Len(found)
                  /\ {order[i] : i \in DOMAIN order} = inputs
                  /\ \A i \in DOMAIN found :
                        LET at == PositionIn(order, IntoContract(found[i]))
                        IN  /\ at > 0
                            /\ \A k \in DOMAIN found[i].deps :
                                  LET dep == PositionIn(order, found[i].deps[k])
                                  IN  dep > 0 /\ dep < at
                            /\ found[i].deps = << >>
                                  => at <= Len(found) - Cardinality(pending)

\* Three contracts were sorted in two passes: the first one listed depends
\* on a contract that is only added in the first pass.
C38_Witness ==
    /\ SortStep
    /\ step.result.ok
    /\ Len(step.result.queue) = 3
    /\ step.result.passes = 2

\* The last step took one of the three revert paths of C40 and ended with
\* Revert: an ecall with an unknown id, an SLoad the host did not answer, a
\* fault other than an environment call.
ChargedRevertStep ==
    /\ step.handler = "riscv" /\ EndsWith("Revert")
    /\ \/ step.run = "Fault"
       \/ EcallStep /\ DecodeSyscall(StepT0) = "UnknownOpcode"
       \/ EcallStep /\ DecodeSyscall(StepT0) = "SLoad" /\ step.answer = "None"

\* The gas the frame has spent when return_revert is called: what it had
\* spent when the step began and, on a fault, the charge made for the
\* instructions run.
SpentBeforeRevert ==
    GasSpent(step.gas)
        + (IF step.run = "Fault"
           THEN r55_gas_used(FALSE, step.emu.inst_counter).val ELSE 0)

\* C40: on the revert paths of an unknown syscall id, a failed SLoad and a
\* non-ecall fault the Revert result reports spent gas 2 * s when 2 * s fits
\* the limit L and s otherwise, s being the gas spent before the revert;
\* the reported spent gas never exceeds L, and the explicit Revert syscall
\* reports s, with no further charge.
C40_RevertChargesSpentGasAgain ==
    /\ ChargedRevertStep =>
          LET s == SpentBeforeRevert
              L == step.gas.limit
              reported == GasSpent(step.result.gas)
          IN  /\ step.result.gas.limit = L
              /\ reported = IF 2 * s <= L THEN 2 * s ELSE s
              /\ reported <= L
    /\ (EcallStep /\ DecodeSyscall(StepT0) = "Revert" /\ EndsWith("Revert"))
          => step.result.gas = step.gas

\* An unknown syscall id reverted a frame that had spent gas before, and the
\* spent gas fitted the limit a second time.
C40_Witness ==
    /\ ChargedRevertStep
    /\ EcallStep /\ DecodeSyscall(StepT0) = "UnknownOpcode"
    /\ GasSpent(step.gas) > 0
    /\ GasSpent(step.result.gas) = 2 * GasSpent(step.gas)

====
